---- MODULE Spec2Model ----
(***************************************************************************)
(* Camp booking system: bookings, services, slot capacity, reference       *)
(* numbers and service deletion, modelled from app/services/*.py,          *)
(* app/utils/validators.py, app/models.py, app/routes/*.py and config.py.  *)
(*                                                                         *)
(* Text is modelled as sequences of one-character strings (time slots,     *)
(* phones, reference numbers) or of Unicode code points (names).  Dates    *)
(* are day ordinals counted from EpochDate.  Every database query of a     *)
(* call is one step of the worker that runs it, so that requests can       *)
(* interleave between queries; a worker that has reached its return        *)
(* statement holds the result in loc[p].ret until Return.                  *)
(*                                                                         *)
(* Specifications:                                                         *)
(*   Spec      two workers interleave create_booking, cancel_booking,      *)
(*             toggle_service_status and delete_service                    *)
(*   SeqSpec   create_booking and cancel_booking, one call at a time       *)
(*   DelSpec   bookings of two services and delete_service, one at a time  *)
(*   ClockSpec create_booking calls on successive days, one at a time      *)
(*   NotifSpec save_subscription, admin cancellations and reminder sweeps   *)
(*             over two bookings, one at a time                            *)
(*   SweepSpec cancellations and reminder sweeps on successive days        *)
(*   DateSpec  create_booking for dates at both ends of the window, on     *)
(*             successive days, one at a time                              *)
(*   NameSpec  create_service and update_service, one at a time            *)
(*   SlotSpec  create_booking with time slots of every shape, one at a     *)
(*             time                                                        *)
(*   SvcSpec   services switched off and on and create_booking, one at a   *)
(*             time                                                        *)
(***************************************************************************)
EXTENDS Integers, Sequences, FiniteSets, TLC

\* ------------------------------------------------------------------ bounds
MaxBookings == 3            \* booking ids ever handed out
MaxDay == 1                 \* the clock advances from day 0 up to this day
MaxNotifications == 2       \* notification records ever created
MaxServices == 4            \* service rows that exist together
Procs == {"r1", "r2"}       \* request workers that may be in flight together

\* --------------------------------------------------------------- constants
MAX_BOOKINGS_PER_SLOT == 2
MAX_DAYS_AHEAD == 30
CALENDAR_DAYS_AHEAD == 30
NAME_MIN_LENGTH == 2
NAME_MAX_LENGTH == 50
SUFFIX_LENGTH == 4
DEFAULT_DISPLAY_ORDER == 999

None == 0                   \* Python's None for ids (ids start at 1)

\* ------------------------------------------------------------- characters
Digits == {"0", "1", "2", "3", "4", "5", "6", "7", "8", "9"}
UpperCase == {"A", "B", "C", "D", "E", "F", "G", "H", "I", "J", "K", "L", "M",
              "N", "O", "P", "Q", "R", "S", "T", "U", "V", "W", "X", "Y", "Z"}
DigitSeq == <<"0", "1", "2", "3", "4", "5", "6", "7", "8", "9">>

DigitChar(n) == DigitSeq[n + 1]

DigitVal(c) == CHOOSE n \in 0..9 : DigitSeq[n + 1] = c

\* f'{n:02d}'
Fmt2(n) == <<DigitChar((n \div 10) % 10), DigitChar(n % 10)>>

\* f'{n:04d}'
Fmt4(n) == <<DigitChar((n \div 1000) % 10), DigitChar((n \div 100) % 10),
             DigitChar((n \div 10) % 10), DigitChar(n % 10)>>

RECURSIVE SelectDigits(_)
\* ''.join(DIGITS_PATTERN.findall(s))
SelectDigits(s) ==
    IF s = <<>> THEN <<>>
    ELSE IF Head(s) \in Digits THEN <<Head(s)>> \o SelectDigits(Tail(s))
    ELSE SelectDigits(Tail(s))

\* ------------------------------------------------------------------ dates
EpochDate == [y |-> 2025, m |-> 5, d |-> 31]

IsLeap(y) == (y % 4 = 0 /\ y % 100 # 0) \/ y % 400 = 0

DaysInMonth(y, m) ==
    IF m = 2 THEN (IF IsLeap(y) THEN 29 ELSE 28)
    ELSE IF m \in {4, 6, 9, 11} THEN 30 ELSE 31

NextDate(c) ==
    IF c.d < DaysInMonth(c.y, c.m) THEN [c EXCEPT !.d = c.d + 1]
    ELSE IF c.m < 12 THEN [c EXCEPT !.m = c.m + 1, !.d = 1]
    ELSE [y |-> c.y + 1, m |-> 1, d |-> 1]

RECURSIVE Civil(_)
\* the calendar date of day ordinal n (n >= 0)
Civil(n) == IF n = 0 THEN EpochDate ELSE NextDate(Civil(n - 1))

\* date.strftime('%Y%m%d')
Strftime(n) == Fmt4(Civil(n).y) \o Fmt2(Civil(n).m) \o Fmt2(Civil(n).d)

\* -------------------------------------------------------------- validators
\* PhoneValidator.format_phone: None is modelled as the empty sequence
format_phone(phone) ==
    LET all == SelectDigits(phone)
        digits == IF all # <<>> /\ Head(all) \in {"7", "8"} THEN Tail(all) ELSE all
    IN  IF Len(digits) # 10 THEN <<>>
        ELSE <<"+", "7", " ", "(">> \o SubSeq(digits, 1, 3) \o <<")", " ">>
             \o SubSeq(digits, 4, 6) \o <<"-">> \o SubSeq(digits, 7, 8)
             \o <<"-">> \o SubSeq(digits, 9, 10)

\* PHONE_PATTERN  ^\+7 \(\d{3}\) \d{3}-\d{2}-\d{2}$
PHONE_PATTERN(s) ==
    /\ Len(s) = 18 \/ (Len(s) = 19 /\ s[19] = "\n") \* $ also matches before a final newline
    /\ s[1] = "+" /\ s[2] = "7" /\ s[3] = " " /\ s[4] = "("
    /\ s[8] = ")" /\ s[9] = " " /\ s[13] = "-" /\ s[16] = "-"
    /\ \A i \in {5, 6, 7, 10, 11, 12, 14, 15, 17, 18} : s[i] \in Digits

validate_phone(phone) ==
    IF phone = <<>> THEN FALSE
    ELSE IF PHONE_PATTERN(phone) THEN TRUE
    ELSE format_phone(phone) # <<>>

\* DateValidator.validate_date for a date object, allow_past = False
validate_date(date_value, now) == ~(date_value < now)

\* the error message of DateValidator.validate_date for a date object; ""
\* stands for None
validate_date_error(date_value, now) ==
    IF date_value < now THEN "Date cannot be in the past" ELSE ""

\* variant: the last day of the window is left out
validate_date_range_exclusive(date_value, now) ==
    IF ~validate_date(date_value, now) THEN FALSE
    ELSE date_value < now + MAX_DAYS_AHEAD

\* DateValidator.validate_date_range with the default max_days_ahead
validate_date_range(date_value, now) ==
    IF ~validate_date(date_value, now) THEN FALSE
    ELSE date_value <= now + MAX_DAYS_AHEAD

\* TIME_PATTERN  ^\d{2}:\d{2}$
TIME_PATTERN(s) ==
    /\ Len(s) = 5 \/ (Len(s) = 6 /\ s[6] = "\n")    \* $ also matches before a final newline
    /\ s[3] = ":"
    /\ \A i \in {1, 2, 4, 5} : s[i] \in Digits

validate_time_slot(time_slot) ==
    IF time_slot = <<>> \/ ~TIME_PATTERN(time_slot) THEN FALSE
    ELSE LET hours == 10 * DigitVal(time_slot[1]) + DigitVal(time_slot[2])
             minutes == 10 * DigitVal(time_slot[4]) + DigitVal(time_slot[5])
         IN  IF ~(0 <= hours /\ hours < 24) THEN FALSE
             ELSE IF minutes \notin {0, 15, 30, 45} THEN FALSE
             ELSE TRUE

\* code points: whitespace, and the class [А-Яа-яЁё\s\-]
Whitespace == {9, 10, 11, 12, 13, 32}
CyrillicClass == (1040..1103) \cup {1025, 1105} \cup Whitespace \cup {45}

RECURSIVE LStrip(_)
LStrip(s) == IF s # <<>> /\ Head(s) \in Whitespace THEN LStrip(Tail(s)) ELSE s

RECURSIVE RStrip(_)
RStrip(s) ==
    IF s # <<>> /\ s[Len(s)] \in Whitespace THEN RStrip(SubSeq(s, 1, Len(s) - 1)) ELSE s

\* str.strip()
Strip(s) == RStrip(LStrip(s))

\* CYRILLIC_PATTERN  ^[А-Яа-яЁё\s\-]+$
CYRILLIC_PATTERN(s) == s # <<>> /\ \A i \in 1..Len(s) : s[i] \in CyrillicClass

validate_name(name) ==
    IF name = <<>> THEN FALSE
    ELSE LET stripped == Strip(name)
         IN  IF Len(stripped) < NAME_MIN_LENGTH \/ Len(stripped) > NAME_MAX_LENGTH
             THEN FALSE
             ELSE CYRILLIC_PATTERN(stripped)

\* Config.CAMPS (names transliterated; only equality is used)
CAMPS == <<"Taezhny 6 - Respublika Charodeev", "Taezhny 9 - Druzhny",
           "Taezhny 10 - Zvezdny">>

validate_camp(camp, valid_camps) == \E i \in 1..Len(valid_camps) : valid_camps[i] = camp

\* Config.TIME_SLOTS: 15-minute slots from 09:00 to 16:45, in order
TIME_SLOTS ==
    [i \in 1..32 |-> Fmt2(9 + ((i - 1) \div 4)) \o <<":">> \o Fmt2(15 * ((i - 1) % 4))]

\* ----------------------------------------------------------------- inputs
\* values the requests are drawn from
BookingIds == 1..MaxBookings
Slot1000 == <<"1", "0", ":", "0", "0">>
Slot1015 == <<"1", "0", ":", "1", "5">>
Slot1007 == <<"1", "0", ":", "0", "7">>
NameIva == <<1048, 1074, 1072>>              \* "Ива"
NameIvaPadded == <<32, 1048, 1074, 1072>>    \* " Ива"
NameJo == <<74, 111>>                        \* "Jo"
PhoneFormatted == <<"+", "7", " ", "(", "9", "1", "2", ")", " ", "3", "4", "5",
                    "-", "6", "7", "-", "8", "9">>
PhonePlain == <<"8", "9", "1", "2", "3", "4", "5", "6", "7", "8", "9">>
PhoneShort == <<"1", "2", "3", "4", "5">>
PhoneOther == <<"+", "7", " ", "(", "9", "1", "2", ")", " ", "3", "4", "5",
                "-", "6", "7", "-", "8", "0">>
CampOther == "Other camp"
\* outcomes of random.choices(string.ascii_uppercase + string.digits, k=4)
SuffixPool == {<<"A", "B", "C", "D">>, <<"Z", "9", "0", "Q">>, <<"7", "K", "7", "K">>}

\* time_slot values of the form: strings that are or that resemble HH:MM,
\* the empty string and a one-digit hour
TimeSlotInputs ==
    {h \o <<sep>> \o m \o rest :
        h \in {<<"2", "3">>, <<"2", "4">>},
        sep \in {":", "."},
        m \in {<<"0", "0">>, <<"4", "5">>, <<"0", "7">>, <<"6", "0">>},
        rest \in {<<>>, <<"\n">>, <<"5">>}}
    \cup {<<>>, <<"9", ":", "0", "0">>}

BaseArgs(now) ==
    [service_id |-> 1, date |-> now, time_slot |-> Slot1000,
     last_name |-> NameIva, first_name |-> NameIva,
     phone |-> PhoneFormatted, camp |-> CAMPS[1]]

\* requests that pass validation while their service is active
GoodArgs(now, service_ids, offsets) ==
    {[BaseArgs(now) EXCEPT !.service_id = s, !.date = now + o, !.time_slot = t] :
        s \in service_ids, o \in offsets, t \in {Slot1000, Slot1015}}

\* requests with one or several bad fields; 9 is the id of no service
BadArgs(now) ==
    {[BaseArgs(now) EXCEPT !.date = now + o] : o \in {-1, MAX_DAYS_AHEAD + 1}}
    \cup {[BaseArgs(now) EXCEPT !.service_id = 9],
          [BaseArgs(now) EXCEPT !.time_slot = Slot1007],
          [BaseArgs(now) EXCEPT !.last_name = NameJo],
          [BaseArgs(now) EXCEPT !.first_name = <<>>],
          [BaseArgs(now) EXCEPT !.phone = PhoneShort],
          [BaseArgs(now) EXCEPT !.camp = CampOther],
          [BaseArgs(now) EXCEPT !.time_slot = Slot1007, !.phone = PhoneShort,
                                !.date = now - 1]}

\* a valid request whose name and phone are stored in another form than typed
UntidyArgs(now) ==
    {[BaseArgs(now) EXCEPT !.last_name = NameIvaPadded, !.phone = PhonePlain]}

\* subscription_data of POST /api/subscribe; the last one lacks keys['auth']
DataA == [endpoint |-> "https://push.example/a",
          keys |-> [p256dh |-> "p256dh-a", auth |-> "auth-a"]]
DataB == [endpoint |-> "https://push.example/b",
          keys |-> [p256dh |-> "p256dh-b", auth |-> "auth-b"]]
DataNoAuth == [endpoint |-> "https://push.example/b", keys |-> [p256dh |-> "p256dh-b"]]

\* ------------------------------------------------------------------ state
VARIABLES
    today,              \* date.today(), a day ordinal
    services,           \* table services: id -> row
    bookings,           \* table bookings: id -> row
    next_booking_id,    \* next primary key of bookings
    subscriptions,      \* table push_subscriptions: id -> row
    notifications,      \* table notifications: row number id, in order of creation
    session,            \* the Flask session of the admin's browser: key -> value
    pc,                 \* position of each request worker
    loc                 \* local variables and return value of each worker

vars == <<today, services, bookings, next_booking_id, subscriptions, notifications,
          session, pc, loc>>

NoArgs == [service_id |-> None, date |-> 0, time_slot |-> <<>>, last_name |-> <<>>,
           first_name |-> <<>>, phone |-> <<>>, camp |-> ""]

\* what a call returned: create_booking -> (booking, errors), the others -> ok;
\* raised: the call ended in an exception; was: the status cancel_booking found
\* subscription: the id of the row save_subscription returns
NoRet == [booking |-> None, errors |-> {}, ok |-> FALSE, raised |-> FALSE, was |-> "",
          subscription |-> None]

\* subscription_data of a call that carries none
NoData == [endpoint |-> "", keys |-> [p256dh |-> "", auth |-> ""]]

\* the session of a browser that has not logged in
NoSession == [k \in {} |-> None]

\* no push attempted
NoTransport == [kind |-> "", status |-> None]

\* locals of a worker that is not inside a call
\* name: the name passed to create_service or update_service;
\* data, found: save_subscription; notification, dispatch, transport, push_ret:
\* the record, the course and the push result of one send_*_notification;
\* pending, failed, base: the bookings left to a sweep, those whose reminder
\* failed, and the number of notification rows when the sweep began;
\* listed: the ids of the rows get_active_services returned, in their order;
\* password: the password passed to login (name holds the username)
IdleLoc == [op |-> "", args |-> NoArgs, id |-> None, count |-> 0,
            formatted_phone |-> <<>>, date_part |-> <<>>, reference |-> <<>>,
            data |-> NoData, found |-> None, name |-> "",
            notification |-> None, dispatch |-> "", transport |-> NoTransport,
            push_ret |-> "",
            pending |-> {}, failed |-> {}, base |-> 0,
            listed |-> <<>>, password |-> "",
            ret |-> NoRet]

\* _seed_default_services: three active services (names transliterated)
\* required_documents holds the list that is stored as JSON (entries shortened)
SeedServices ==
    <<[name |-> "Poluchit putevku", description |-> "Poluchenie putevki v lager",
       required_documents |-> <<"svidetelstvo", "kvitanciya", "pasport">>,
       active |-> TRUE, display_order |-> 1],
      [name |-> "Vozvrat denezhnyh sredstv",
       description |-> "Vozvrat denezhnyh sredstv za putevku",
       required_documents |-> <<"putevka", "pasport", "rekvizity">>,
       active |-> TRUE, display_order |-> 2],
      [name |-> "Vozvrat putevki", description |-> "Vozvrat neispolzovannoj putevki",
       required_documents |-> <<"putevka", "pasport">>,
       active |-> TRUE, display_order |-> 3]>>

ServiceIds == DOMAIN SeedServices

Init ==
    /\ today = 0
    /\ services = SeedServices
    /\ bookings = <<>>
    /\ next_booking_id = 1
    /\ subscriptions = <<>>
    /\ notifications = <<>>
    /\ session = NoSession
    /\ pc = [p \in Procs |-> "idle"]
    /\ loc = [p \in Procs |-> IdleLoc]

AllIdle == \A p \in Procs : pc[p] = "idle"

\* rows of a table as a function with one more / fewer keys
Put(table, id, row) == [i \in DOMAIN table \cup {id} |-> IF i = id THEN row ELSE table[i]]

Remove(table, ids) == [i \in DOMAIN table \ ids |-> table[i]]

\* a worker reaches the return statement of its call
Finish(p, op, ret) ==
    /\ pc' = [pc EXCEPT ![p] = "done"]
    /\ loc' = [loc EXCEPT ![p].op = op, ![p].ret = ret]

\* the caller has taken the result; the worker is free again
Return(p) ==
    /\ pc[p] = "done"
    /\ pc' = [pc EXCEPT ![p] = "idle"]
    /\ loc' = [loc EXCEPT ![p] = IdleLoc]
    /\ UNCHANGED <<today, services, bookings, next_booking_id, subscriptions, notifications, session>>

\* ------------------------------------------------------------ BookingService
\* variant: the status filter is missing
get_slot_count_any_status(booking_date, time_slot) ==
    Cardinality({i \in DOMAIN bookings :
                    /\ bookings[i].date = booking_date
                    /\ bookings[i].time_slot = time_slot})

\* Booking.query.filter(date ==, time_slot ==, status == 'confirmed').count()
get_slot_count(booking_date, time_slot) ==
    Cardinality({i \in DOMAIN bookings :
                    /\ bookings[i].date = booking_date
                    /\ bookings[i].time_slot = time_slot
                    /\ bookings[i].status = "confirmed"})

\* variant: count <= max_bookings
is_slot_available_off_by_one(booking_date, time_slot, max_bookings) ==
    LET count == Cardinality({i \in DOMAIN bookings :
                                 /\ bookings[i].date = booking_date
                                 /\ bookings[i].time_slot = time_slot
                                 /\ bookings[i].status = "confirmed"})
    IN  count <= max_bookings

is_slot_available(booking_date, time_slot, max_bookings) ==
    LET count == Cardinality({i \in DOMAIN bookings :
                                 /\ bookings[i].date = booking_date
                                 /\ bookings[i].time_slot = time_slot
                                 /\ bookings[i].status = "confirmed"})
    IN  count < max_bookings

\* variant: the service is looked up but its active flag is not read
validate_booking_data_ignores_active(a) ==
    (IF a.service_id \notin DOMAIN services THEN {"service"} ELSE {})
    \cup (IF ~validate_date(a.date, today) \/ ~validate_date_range(a.date, today)
        THEN {"date"} ELSE {})
    \cup (IF ~validate_time_slot(a.time_slot) THEN {"time_slot"} ELSE {})
    \cup (IF ~validate_name(a.last_name) THEN {"last_name"} ELSE {})
    \cup (IF ~validate_name(a.first_name) THEN {"first_name"} ELSE {})
    \cup (IF ~validate_phone(a.phone) THEN {"phone"} ELSE {})
    \cup (IF ~validate_camp(a.camp, CAMPS) THEN {"camp"} ELSE {})

\* the keys of the error dict of validate_booking_data
validate_booking_data(a) ==
    (IF a.service_id \notin DOMAIN services \/ ~services[a.service_id].active
        THEN {"service"} ELSE {})
    \cup (IF ~validate_date(a.date, today) \/ ~validate_date_range(a.date, today)
        THEN {"date"} ELSE {})
    \cup (IF ~validate_time_slot(a.time_slot) THEN {"time_slot"} ELSE {})
    \cup (IF ~validate_name(a.last_name) THEN {"last_name"} ELSE {})
    \cup (IF ~validate_name(a.first_name) THEN {"first_name"} ELSE {})
    \cup (IF ~validate_phone(a.phone) THEN {"phone"} ELSE {})
    \cup (IF ~validate_camp(a.camp, CAMPS) THEN {"camp"} ELSE {})

\* ids reserved by calls that passed validation and have not inserted
InFlightCreates == Cardinality({p \in Procs : pc[p] \in {"cb_check", "cb_ref", "cb_insert"}})

\* variant: the early return on validation errors hands back an empty map
CbValidate_empty_errors(p, a) ==
    /\ pc[p] = "idle"
    /\ LET errors == validate_booking_data(a)
       IN  IF errors # {}
           THEN /\ pc' = [pc EXCEPT ![p] = "done"]
                /\ loc' = [loc EXCEPT ![p].op = "create_booking", ![p].args = a]
           ELSE /\ next_booking_id + InFlightCreates <= MaxBookings
                /\ pc' = [pc EXCEPT ![p] = "cb_check"]
                /\ loc' = [loc EXCEPT ![p].op = "create_booking", ![p].args = a]
    /\ UNCHANGED <<today, services, bookings, next_booking_id, subscriptions, notifications, session>>

\* create_booking, lines 174-179: validate_booking_data
CbValidate(p, a) ==
    /\ pc[p] = "idle"
    /\ LET errors == validate_booking_data(a)
       IN  IF errors # {}
           THEN /\ pc' = [pc EXCEPT ![p] = "done"]
                /\ loc' = [loc EXCEPT ![p].op = "create_booking", ![p].args = a,
                                      ![p].ret = [NoRet EXCEPT !.errors = errors]]
           ELSE /\ next_booking_id + InFlightCreates <= MaxBookings
                /\ pc' = [pc EXCEPT ![p] = "cb_check"]
                /\ loc' = [loc EXCEPT ![p].op = "create_booking", ![p].args = a]
    /\ UNCHANGED <<today, services, bookings, next_booking_id, subscriptions, notifications, session>>

\* variant: the availability check is skipped
CbCheck_unchecked(p) ==
    /\ pc[p] = "cb_check"
    /\ LET a == loc[p].args
           formatted_phone == format_phone(a.phone)
       IN  IF formatted_phone = <<>>
           THEN Finish(p, "create_booking", [NoRet EXCEPT !.errors = {"phone"}])
           ELSE /\ pc' = [pc EXCEPT ![p] = "cb_ref"]
                /\ loc' = [loc EXCEPT ![p].count = get_slot_count(a.date, a.time_slot),
                                      ![p].formatted_phone = formatted_phone,
                                      ![p].date_part = Strftime(today)]
    /\ UNCHANGED <<today, services, bookings, next_booking_id, subscriptions, notifications, session>>

\* create_booking, lines 181-191: is_slot_available, format_phone, date.today()
CbCheck(p) ==
    /\ pc[p] = "cb_check"
    /\ LET a == loc[p].args
           formatted_phone == format_phone(a.phone)
       IN  IF ~is_slot_available(a.date, a.time_slot, MAX_BOOKINGS_PER_SLOT)
           THEN Finish(p, "create_booking", [NoRet EXCEPT !.errors = {"time_slot"}])
           ELSE IF formatted_phone = <<>>
           THEN Finish(p, "create_booking", [NoRet EXCEPT !.errors = {"phone"}])
           ELSE /\ pc' = [pc EXCEPT ![p] = "cb_ref"]
                /\ loc' = [loc EXCEPT ![p].count = get_slot_count(a.date, a.time_slot),
                                      ![p].formatted_phone = formatted_phone,
                                      ![p].date_part = Strftime(today)]
    /\ UNCHANGED <<today, services, bookings, next_booking_id, subscriptions, notifications, session>>

\* Booking.query.filter_by(reference_number=reference).first() is not None
ReferenceExists(reference) ==
    \E i \in DOMAIN bookings : bookings[i].reference_number = reference

\* variant: the suffix is drawn once, before the loop
CbRef_drawn_once(p, random_part) ==
    /\ pc[p] = "cb_ref"
    /\ LET reference == IF loc[p].reference = <<>>
                        THEN loc[p].date_part \o <<"-">> \o random_part
                        ELSE loc[p].reference
       IN  /\ pc' = [pc EXCEPT ![p] = IF ReferenceExists(reference)
                                     THEN "cb_ref" ELSE "cb_insert"]
           /\ loc' = [loc EXCEPT ![p].reference = reference]
    /\ UNCHANGED <<today, services, bookings, next_booking_id, subscriptions, notifications, session>>

\* variant: the drawn reference is returned without the existence check
CbRef_unchecked(p, random_part) ==
    /\ pc[p] = "cb_ref"
    /\ pc' = [pc EXCEPT ![p] = "cb_insert"]
    /\ loc' = [loc EXCEPT ![p].reference = loc[p].date_part \o <<"-">> \o random_part]
    /\ UNCHANGED <<today, services, bookings, next_booking_id, subscriptions, notifications, session>>

\* generate_reference_number: one turn of the while loop with one random draw
CbRef(p, random_part) ==
    /\ pc[p] = "cb_ref"
    /\ LET reference == loc[p].date_part \o <<"-">> \o random_part
       IN  IF ReferenceExists(reference)
           THEN UNCHANGED <<pc, loc>>
           ELSE /\ pc' = [pc EXCEPT ![p] = "cb_insert"]
                /\ loc' = [loc EXCEPT ![p].reference = reference]
    /\ UNCHANGED <<today, services, bookings, next_booking_id, subscriptions, notifications, session>>

NewBooking(l) ==
    [service_id |-> l.args.service_id, date |-> l.args.date,
     time_slot |-> l.args.time_slot, last_name |-> Strip(l.args.last_name),
     first_name |-> Strip(l.args.first_name), phone |-> l.formatted_phone,
     camp |-> l.args.camp, status |-> "confirmed",
     reference_number |-> l.reference]

\* variant: the slot is counted again, under a lock, right before the insert
CbInsert_rechecked(p) ==
    /\ pc[p] = "cb_insert"
    /\ LET l == loc[p]
           failed == /\ Finish(p, "create_booking", [NoRet EXCEPT !.raised = TRUE])
                     /\ UNCHANGED <<bookings, next_booking_id>>
           refused == /\ Finish(p, "create_booking", [NoRet EXCEPT !.errors = {"time_slot"}])
                      /\ UNCHANGED <<bookings, next_booking_id>>
           inserted == /\ bookings' = Put(bookings, next_booking_id, NewBooking(l))
                       /\ next_booking_id' = next_booking_id + 1
                       /\ Finish(p, "create_booking",
                                 [NoRet EXCEPT !.booking = next_booking_id])
       IN  IF ~is_slot_available(l.args.date, l.args.time_slot, MAX_BOOKINGS_PER_SLOT)
           THEN refused
           ELSE IF ReferenceExists(l.reference) THEN failed
           ELSE IF l.args.service_id \notin DOMAIN services THEN failed \/ inserted
           ELSE inserted
    /\ UNCHANGED <<today, services, subscriptions, notifications, session>>

\* create_booking, lines 194-209: db.session.add, commit.  The unique
\* constraint on reference_number makes the commit raise IntegrityError; a
\* missing service row makes it raise where foreign keys are enforced
\* (PostgreSQL) and insert where they are not (SQLite default).  Column
\* lengths are not enforced, as in the default SQLite database.
CbInsert(p) ==
    /\ pc[p] = "cb_insert"
    /\ LET l == loc[p]
           failed == /\ Finish(p, "create_booking", [NoRet EXCEPT !.raised = TRUE])
                     /\ UNCHANGED <<bookings, next_booking_id>>
           inserted == /\ bookings' = Put(bookings, next_booking_id, NewBooking(l))
                       /\ next_booking_id' = next_booking_id + 1
                       /\ Finish(p, "create_booking",
                                 [NoRet EXCEPT !.booking = next_booking_id])
       IN  IF ReferenceExists(l.reference) THEN failed
           ELSE IF l.args.service_id \notin DOMAIN services THEN failed \/ inserted
           ELSE inserted
    /\ UNCHANGED <<today, services, subscriptions, notifications, session>>

\* variant: a booking that is already cancelled is refused
cancel_booking_only_confirmed(p, booking_id) ==
    /\ pc[p] = "idle"
    /\ pc' = [pc EXCEPT ![p] = "done"]
    /\ IF booking_id \notin DOMAIN bookings \/ bookings[booking_id].status # "confirmed"
       THEN /\ loc' = [loc EXCEPT ![p].op = "cancel_booking", ![p].id = booking_id]
            /\ UNCHANGED bookings
       ELSE /\ bookings' = [bookings EXCEPT ![booking_id].status = "cancelled"]
            /\ loc' = [loc EXCEPT ![p].op = "cancel_booking", ![p].id = booking_id,
                                  ![p].ret = [NoRet EXCEPT !.ok = TRUE,
                                                 !.was = bookings[booking_id].status]]
    /\ UNCHANGED <<today, services, next_booking_id, subscriptions, notifications, session>>

\* variant: cancelling a cancelled booking restores it
cancel_booking_toggles(p, booking_id) ==
    /\ pc[p] = "idle"
    /\ pc' = [pc EXCEPT ![p] = "done"]
    /\ IF booking_id \notin DOMAIN bookings
       THEN /\ loc' = [loc EXCEPT ![p].op = "cancel_booking", ![p].id = booking_id]
            /\ UNCHANGED bookings
       ELSE /\ bookings' = [bookings EXCEPT ![booking_id].status =
                               IF @ = "confirmed" THEN "cancelled" ELSE "confirmed"]
            /\ loc' = [loc EXCEPT ![p].op = "cancel_booking", ![p].id = booking_id,
                                  ![p].ret = [NoRet EXCEPT !.ok = TRUE,
                                                 !.was = bookings[booking_id].status]]
    /\ UNCHANGED <<today, services, next_booking_id, subscriptions, notifications, session>>

\* variant: the status assignment is lost (no commit)
cancel_booking_not_saved(p, booking_id) ==
    /\ pc[p] = "idle"
    /\ pc' = [pc EXCEPT ![p] = "done"]
    /\ IF booking_id \notin DOMAIN bookings
       THEN loc' = [loc EXCEPT ![p].op = "cancel_booking", ![p].id = booking_id]
       ELSE loc' = [loc EXCEPT ![p].op = "cancel_booking", ![p].id = booking_id,
                               ![p].ret = [NoRet EXCEPT !.ok = TRUE,
                                              !.was = bookings[booking_id].status]]
    /\ UNCHANGED <<today, services, bookings, next_booking_id, subscriptions, notifications, session>>

\* cancel_booking, lines 302-307 and 317 (the notification is sent after the commit)
cancel_booking(p, booking_id) ==
    /\ pc[p] = "idle"
    /\ pc' = [pc EXCEPT ![p] = "done"]
    /\ IF booking_id \notin DOMAIN bookings
       THEN /\ loc' = [loc EXCEPT ![p].op = "cancel_booking", ![p].id = booking_id]
            /\ UNCHANGED bookings
       ELSE /\ bookings' = [bookings EXCEPT ![booking_id].status = "cancelled"]
            /\ loc' = [loc EXCEPT ![p].op = "cancel_booking", ![p].id = booking_id,
                                  ![p].ret = [NoRet EXCEPT !.ok = TRUE,
                                                 !.was = bookings[booking_id].status]]
    /\ UNCHANGED <<today, services, next_booking_id, subscriptions, notifications, session>>

\* GET /api/slots for a date that parsed; status is the HTTP status
get_slots(booking_date) ==
    IF booking_date < today THEN [status |-> 400, slots |-> <<>>]
    ELSE IF booking_date > today + CALENDAR_DAYS_AHEAD THEN [status |-> 400, slots |-> <<>>]
    ELSE [status |-> 200,
          slots |-> [i \in 1..Len(TIME_SLOTS) |->
                        LET count == get_slot_count(booking_date, TIME_SLOTS[i])
                        IN  [time |-> TIME_SLOTS[i],
                             available |-> count < MAX_BOOKINGS_PER_SLOT,
                             count |-> count,
                             max |-> MAX_BOOKINGS_PER_SLOT]]]

\* ------------------------------------------------------------ ServiceManager
toggle_service_status(p, service_id) ==
    /\ pc[p] = "idle"
    /\ pc' = [pc EXCEPT ![p] = "done"]
    /\ IF service_id \notin DOMAIN services
       THEN /\ loc' = [loc EXCEPT ![p].op = "toggle_service_status", ![p].id = service_id]
            /\ UNCHANGED services
       ELSE /\ services' = [services EXCEPT ![service_id].active = ~services[service_id].active]
            /\ loc' = [loc EXCEPT ![p].op = "toggle_service_status", ![p].id = service_id,
                                  ![p].ret = [NoRet EXCEPT !.ok = TRUE]]
    /\ UNCHANGED <<today, bookings, next_booking_id, subscriptions, notifications, session>>

\* an optional argument that is left out (Python's None), for text and lists
Unset == "<unset>"
UnsetList == <<"<unset>">>

\* the primary key the database gives the next services row
NewServiceId ==
    IF DOMAIN services = {} THEN 1
    ELSE 1 + (CHOOSE i \in DOMAIN services : \A j \in DOMAIN services : j <= i)

\* Service.query.filter_by(name=name).first() is not None
ServiceNameExists(name) == \E i \in DOMAIN services : services[i].name = name

create_service(p, name, description) ==
    /\ pc[p] = "idle"
    /\ pc' = [pc EXCEPT ![p] = "done"]
    /\ IF ServiceNameExists(name)
       THEN /\ loc' = [loc EXCEPT ![p].op = "create_service", ![p].name = name]
            /\ UNCHANGED services
       ELSE /\ Cardinality(DOMAIN services) < MaxServices
            /\ services' = Put(services, NewServiceId,
                               [name |-> name, description |-> description,
                                required_documents |-> <<>>, active |-> TRUE,
                                display_order |-> DEFAULT_DISPLAY_ORDER])
            /\ loc' = [loc EXCEPT ![p].op = "create_service", ![p].name = name,
                                  ![p].id = NewServiceId,
                                  ![p].ret = [NoRet EXCEPT !.ok = TRUE]]
    /\ UNCHANGED <<today, bookings, next_booking_id, subscriptions, notifications, session>>

\* variant: the new name is not compared with the other services
update_service_unchecked(p, service_id, name, description, required_documents) ==
    /\ pc[p] = "idle"
    /\ pc' = [pc EXCEPT ![p] = "done"]
    /\ IF service_id \notin DOMAIN services
       THEN /\ loc' = [loc EXCEPT ![p].op = "update_service", ![p].id = service_id,
                                  ![p].name = name]
            /\ UNCHANGED services
       ELSE /\ services' = [services EXCEPT
                   ![service_id].name =
                       IF name \notin {Unset, ""} THEN name ELSE @,
                   ![service_id].description =
                       IF description # Unset THEN description ELSE @,
                   ![service_id].required_documents =
                       IF required_documents # UnsetList THEN required_documents ELSE @]
            /\ loc' = [loc EXCEPT ![p].op = "update_service", ![p].id = service_id,
                                  ![p].name = name,
                                  ![p].ret = [NoRet EXCEPT !.ok = TRUE]]
    /\ UNCHANGED <<today, bookings, next_booking_id, subscriptions, notifications, session>>

update_service(p, service_id, name, description, required_documents) ==
    /\ pc[p] = "idle"
    /\ pc' = [pc EXCEPT ![p] = "done"]
    /\ IF service_id \notin DOMAIN services
       THEN /\ loc' = [loc EXCEPT ![p].op = "update_service", ![p].id = service_id,
                                  ![p].name = name]
            /\ UNCHANGED services
       ELSE IF /\ name \notin {Unset, ""}
               /\ name # services[service_id].name
               /\ ServiceNameExists(name)
       THEN /\ loc' = [loc EXCEPT ![p].op = "update_service", ![p].id = service_id,
                                  ![p].name = name]
            /\ UNCHANGED services
       ELSE /\ services' = [services EXCEPT
                   ![service_id].name =
                       IF name \notin {Unset, ""} THEN name ELSE @,
                   ![service_id].description =
                       IF description # Unset THEN description ELSE @,
                   ![service_id].required_documents =
                       IF required_documents # UnsetList THEN required_documents ELSE @]
            /\ loc' = [loc EXCEPT ![p].op = "update_service", ![p].id = service_id,
                                  ![p].name = name,
                                  ![p].ret = [NoRet EXCEPT !.ok = TRUE]]
    /\ UNCHANGED <<today, bookings, next_booking_id, subscriptions, notifications, session>>

deactivate_service(p, service_id) ==
    /\ pc[p] = "idle"
    /\ pc' = [pc EXCEPT ![p] = "done"]
    /\ IF service_id \notin DOMAIN services
       THEN /\ loc' = [loc EXCEPT ![p].op = "deactivate_service", ![p].id = service_id]
            /\ UNCHANGED services
       ELSE /\ services' = [services EXCEPT ![service_id].active = FALSE]
            /\ loc' = [loc EXCEPT ![p].op = "deactivate_service", ![p].id = service_id,
                                  ![p].ret = [NoRet EXCEPT !.ok = TRUE]]
    /\ UNCHANGED <<today, bookings, next_booking_id, subscriptions, notifications, session>>

\* Booking.query.filter(service_id ==, status != 'cancelled').count()
ActiveBookingCount(service_id) ==
    Cardinality({i \in DOMAIN bookings :
                    /\ bookings[i].service_id = service_id
                    /\ bookings[i].status # "cancelled"})

can_delete_service(service_id) == ActiveBookingCount(service_id) = 0

\* delete_service, lines 177-178: the first can_delete_service check
DsCanDelete(p, service_id) ==
    /\ pc[p] = "idle"
    /\ IF ~can_delete_service(service_id)
       THEN /\ pc' = [pc EXCEPT ![p] = "done"]
            /\ loc' = [loc EXCEPT ![p].op = "delete_service", ![p].id = service_id]
       ELSE /\ pc' = [pc EXCEPT ![p] = "ds_get"]
            /\ loc' = [loc EXCEPT ![p].op = "delete_service", ![p].id = service_id]
    /\ UNCHANGED <<today, services, bookings, next_booking_id, subscriptions, notifications, session>>

\* delete_service, lines 180-182: Service.query.get
DsGet(p) ==
    /\ pc[p] = "ds_get"
    /\ IF loc[p].id \notin DOMAIN services
       THEN Finish(p, "delete_service", NoRet)
       ELSE /\ pc' = [pc EXCEPT ![p] = "ds_recheck"]
            /\ UNCHANGED loc
    /\ UNCHANGED <<today, services, bookings, next_booking_id, subscriptions, notifications, session>>

\* delete_service, lines 186-191: the second count
DsRecheck(p) ==
    /\ pc[p] = "ds_recheck"
    /\ IF ActiveBookingCount(loc[p].id) > 0
       THEN Finish(p, "delete_service", NoRet)
       ELSE /\ pc' = [pc EXCEPT ![p] = "ds_delete"]
            /\ UNCHANGED loc
    /\ UNCHANGED <<today, services, bookings, next_booking_id, subscriptions, notifications, session>>

\* delete_service, lines 194-198: bulk delete of the service's bookings,
\* delete of the service row, commit.  When the row is already gone the
\* flush of the pending delete raises and the transaction is rolled back.
DsDelete(p) ==
    /\ pc[p] = "ds_delete"
    /\ LET service_id == loc[p].id
       IN  IF service_id \notin DOMAIN services
           THEN /\ Finish(p, "delete_service", [NoRet EXCEPT !.raised = TRUE])
                /\ UNCHANGED <<services, bookings>>
           ELSE /\ bookings' = Remove(bookings, {i \in DOMAIN bookings :
                                                    bookings[i].service_id = service_id})
                /\ services' = Remove(services, {service_id})
                /\ Finish(p, "delete_service", [NoRet EXCEPT !.ok = TRUE])
    /\ UNCHANGED <<today, next_booking_id, subscriptions, notifications, session>>

\* the code points of the service names in use: the default collation of the
\* database compares TEXT values byte by byte
NameCodes ==
    ("Poluchit putevku" :> <<80, 111, 108, 117, 99, 104, 105, 116, 32, 112, 117, 116, 101, 118, 107, 117>>) @@
    ("Vozvrat denezhnyh sredstv" :> <<86, 111, 122, 118, 114, 97, 116, 32, 100, 101, 110, 101, 122, 104, 110, 121, 104, 32, 115, 114, 101, 100, 115, 116, 118>>) @@
    ("Vozvrat putevki" :> <<86, 111, 122, 118, 114, 97, 116, 32, 112, 117, 116, 101, 118, 107, 105>>) @@
    ("Konsultaciya" :> <<75, 111, 110, 115, 117, 108, 116, 97, 99, 105, 121, 97>>) @@
    ("Spravka" :> <<83, 112, 114, 97, 118, 107, 97>>) @@
    ("Spravka v sad" :> <<83, 112, 114, 97, 118, 107, 97, 32, 118, 32, 115, 97, 100>>)

RECURSIVE LexLess(_, _)
\* a sorts before b, code point by code point, a proper prefix first
LexLess(a, b) ==
    IF b = <<>> THEN FALSE
    ELSE IF a = <<>> THEN TRUE
    ELSE IF Head(a) # Head(b) THEN Head(a) < Head(b)
    ELSE LexLess(Tail(a), Tail(b))

\* ORDER BY display_order, name: row i comes before row j (rows equal in both
\* columns come out in the order of their ids)
OrderedBefore(i, j) ==
    \/ services[i].display_order < services[j].display_order
    \/ /\ services[i].display_order = services[j].display_order
       /\ \/ LexLess(NameCodes[services[i].name], NameCodes[services[j].name])
          \/ services[i].name = services[j].name /\ i < j

RECURSIVE OrderBy(_)
\* the ids of a set of rows in the order of ORDER BY display_order, name
OrderBy(S) ==
    IF S = {} THEN <<>>
    ELSE LET first == CHOOSE i \in S : \A j \in S \ {i} : OrderedBefore(i, j)
         IN  <<first>> \o OrderBy(S \ {first})

\* variant: ORDER BY name only
get_active_services_by_name(p) ==
    /\ pc[p] = "idle"
    /\ pc' = [pc EXCEPT ![p] = "done"]
    /\ LET S == {i \in DOMAIN services : services[i].active}
           before(i, j) == \/ LexLess(NameCodes[services[i].name], NameCodes[services[j].name])
                           \/ services[i].name = services[j].name /\ i < j
           pick[T \in SUBSET S] ==
               IF T = {} THEN <<>>
               ELSE LET first == CHOOSE i \in T : \A j \in T \ {i} : before(i, j)
                    IN  <<first>> \o pick[T \ {first}]
       IN  loc' = [loc EXCEPT ![p].op = "get_active_services", ![p].listed = pick[S],
                              ![p].ret.ok = TRUE]
    /\ UNCHANGED <<today, services, bookings, next_booking_id, subscriptions, notifications, session>>

\* get_active_services, line 16
get_active_services(p) ==
    /\ pc[p] = "idle"
    /\ pc' = [pc EXCEPT ![p] = "done"]
    /\ loc' = [loc EXCEPT ![p].op = "get_active_services",
                          ![p].listed = OrderBy({i \in DOMAIN services : services[i].active}),
                          ![p].ret.ok = TRUE]
    /\ UNCHANGED <<today, services, bookings, next_booking_id, subscriptions, notifications, session>>

\* ------------------------------------------------------ NotificationService
\* PushSubscription.query.filter_by(booking_id=booking_id).first(): the id or None
FirstSubscription(booking_id) ==
    LET found == {i \in DOMAIN subscriptions : subscriptions[i].booking_id = booking_id}
    IN  IF found = {} THEN None ELSE CHOOSE i \in found : \A j \in found : i <= j

\* the primary key the database gives the next push_subscriptions row
NewSubscriptionId ==
    IF DOMAIN subscriptions = {} THEN 1
    ELSE 1 + (CHOOSE i \in DOMAIN subscriptions : \A j \in DOMAIN subscriptions : j <= i)

\* variant: the lookup of the existing subscription finds nothing
SsQuery_not_found(p, booking_id, subscription_data) ==
    /\ pc[p] = "idle"
    /\ pc' = [pc EXCEPT ![p] = "ss_commit"]
    /\ loc' = [loc EXCEPT ![p].op = "save_subscription", ![p].id = booking_id,
                          ![p].data = subscription_data]
    /\ UNCHANGED <<today, services, bookings, next_booking_id, subscriptions, notifications, session>>

\* save_subscription, line 25: the lookup of the booking's subscription
SsQuery(p, booking_id, subscription_data) ==
    /\ pc[p] = "idle"
    /\ pc' = [pc EXCEPT ![p] = "ss_commit"]
    /\ loc' = [loc EXCEPT ![p].op = "save_subscription", ![p].id = booking_id,
                          ![p].data = subscription_data,
                          ![p].found = FirstSubscription(booking_id)]
    /\ UNCHANGED <<today, services, bookings, next_booking_id, subscriptions, notifications, session>>

\* save_subscription, lines 27-48: update or insert, commit.  A missing key
\* of subscription_data raises KeyError, a second row for the booking breaks
\* the unique constraint, an update of a row that is gone finds no row: each
\* is caught, rolled back and answered with None.  A booking that does not
\* exist is refused where foreign keys are enforced and accepted elsewhere.
SsCommit(p) ==
    /\ pc[p] = "ss_commit"
    /\ LET l == loc[p]
           row == [booking_id |-> l.id, endpoint |-> l.data.endpoint,
                   p256dh_key |-> l.data.keys.p256dh, auth_key |-> l.data.keys.auth]
           failed == /\ Finish(p, "save_subscription", NoRet)
                     /\ UNCHANGED subscriptions
           updated == /\ subscriptions' = [subscriptions EXCEPT ![l.found] = row]
                      /\ Finish(p, "save_subscription",
                                [NoRet EXCEPT !.subscription = l.found])
           inserted == /\ subscriptions' = Put(subscriptions, NewSubscriptionId, row)
                       /\ Finish(p, "save_subscription",
                                 [NoRet EXCEPT !.subscription = NewSubscriptionId])
       IN  IF ~({"p256dh", "auth"} \subseteq DOMAIN l.data.keys) THEN failed
           ELSE IF l.found # None
           THEN (IF l.found \in DOMAIN subscriptions THEN updated ELSE failed)
           ELSE IF FirstSubscription(l.id) # None THEN failed
           ELSE IF l.id \notin DOMAIN bookings THEN failed \/ inserted
           ELSE inserted
    /\ UNCHANGED <<today, services, bookings, next_booking_id, notifications, session>>

\* what webpush() does with one message: delivered (no exception), no_key
\* (VAPID_PRIVATE_KEY not configured, webpush is not called), webpush (a
\* WebPushException that carries the HTTP response of the given status, or
\* no response), error (any other exception)
Transports ==
    {[kind |-> "delivered", status |-> 201], [kind |-> "no_key", status |-> None],
     [kind |-> "error", status |-> None]}
    \cup {[kind |-> "webpush", status |-> c] : c \in {None, 404, 410, 500}}

\* bool(e.response): None is false, and a requests.Response is true exactly
\* when Response.ok, that is for a status below 400
ResponseTruthy(status) == status # None /\ status < 400

\* send_push_notification: the return value and the push_subscriptions table
\* it leaves
send_push_notification(table, subscription, transport) ==
    IF transport.kind = "no_key" THEN [ret |-> FALSE, subscriptions |-> table]
    ELSE IF transport.kind = "delivered" THEN [ret |-> TRUE, subscriptions |-> table]
    ELSE IF transport.kind = "webpush"
    THEN [ret |-> FALSE,
          subscriptions |-> IF ResponseTruthy(transport.status)
                               /\ transport.status \in {404, 410}
                            THEN Remove(table, {subscription})
                            ELSE table]
    ELSE [ret |-> FALSE, subscriptions |-> table]

\* create_notification_record, lines 125-135: the table with the new row
create_notification_record(table, booking_id, title, message, notification_type) ==
    Append(table, [booking_id |-> booking_id, title |-> title, message |-> message,
                   notification_type |-> notification_type,
                   is_read |-> FALSE, sent_at |-> FALSE])

\* send_cancellation_notification, lines 203-208: the title (transliterated)
\* and the values the message text is built from
CancellationTitle == "Bronirovanie otmeneno"

CancellationMessage(booking) ==
    [text |-> "bylo otmeneno administratorom",
     reference_number |-> booking.reference_number,
     date |-> booking.date, time_slot |-> booking.time_slot]

\* send_reminder_notification, lines 246-251: the title (transliterated) and
\* the values the message text is built from
ReminderTitle == "Napominanie o zapisi"

ReminderMessage(booking) ==
    [text |-> "zavtra u vas zapis na uslugu",
     reference_number |-> booking.reference_number,
     date |-> booking.date, time_slot |-> booking.time_slot,
     service |-> IF booking.service_id \in DOMAIN services
                 THEN services[booking.service_id].name ELSE ""]

\* how the first half of send_*_notification goes: created (the record is
\* committed), failed (create_notification_record caught an exception, rolled
\* back and returned None), raised (an exception before the record, caught by
\* the function's own handler)
RecordOutcomes == {"created", "failed", "raised"}

\* variant: a push that was not delivered takes the notification record back
Dispatch_rollback_on_failure(booking_id, notification, transport) ==
    LET subscription == FirstSubscription(booking_id)
    IN  IF subscription = None
        THEN [subscriptions |-> subscriptions, notifications |-> notifications,
              dispatch |-> "no_subscription", push_ret |-> ""]
        ELSE LET sent == send_push_notification(subscriptions, subscription, transport)
             IN  [subscriptions |-> sent.subscriptions,
                  notifications |-> IF sent.ret
                                    THEN [notifications EXCEPT ![notification].sent_at = TRUE]
                                    ELSE SubSeq(notifications, 1, notification - 1),
                  dispatch |-> "pushed",
                  push_ret |-> IF sent.ret THEN "True" ELSE "False"]

\* send_cancellation_notification, lines 222-226, and the same lines 265-269
\* of send_reminder_notification: look the subscription up, push, stamp sent_at
Dispatch(booking_id, notification, transport) ==
    LET subscription == FirstSubscription(booking_id)
    IN  IF subscription = None
        THEN [subscriptions |-> subscriptions, notifications |-> notifications,
              dispatch |-> "no_subscription", push_ret |-> ""]
        ELSE LET sent == send_push_notification(subscriptions, subscription, transport)
             IN  [subscriptions |-> sent.subscriptions,
                  notifications |-> [notifications EXCEPT ![notification].sent_at = TRUE],
                  dispatch |-> "pushed",
                  push_ret |-> IF sent.ret THEN "True" ELSE "False"]

RECURSIVE DescendingSeq(_)
\* the elements of a set of numbers, largest first
DescendingSeq(S) ==
    IF S = {} THEN <<>>
    ELSE LET m == CHOOSE i \in S : \A j \in S : j <= i
         IN  <<m>> \o DescendingSeq(S \ {m})

\* get_user_notifications: the ids of the notifications of the bookings with
\* this phone, newest first
get_user_notifications(phone) ==
    LET booking_ids == {b \in DOMAIN bookings : bookings[b].phone = phone}
    IN  DescendingSeq({n \in DOMAIN notifications :
                          notifications[n].booking_id \in booking_ids})

\* variant: marking flips the flag
mark_notification_read_toggles(p, notification_id) ==
    /\ pc[p] = "idle"
    /\ IF notification_id \in DOMAIN notifications
       THEN /\ notifications' = [notifications EXCEPT ![notification_id].is_read = ~@]
            /\ pc' = [pc EXCEPT ![p] = "done"]
            /\ loc' = [loc EXCEPT ![p].op = "mark_notification_read",
                                  ![p].id = notification_id, ![p].ret.ok = TRUE]
       ELSE /\ pc' = [pc EXCEPT ![p] = "done"]
            /\ loc' = [loc EXCEPT ![p].op = "mark_notification_read",
                                  ![p].id = notification_id]
            /\ UNCHANGED notifications
    /\ UNCHANGED <<today, services, bookings, next_booking_id, subscriptions, session>>

\* mark_notification_read, lines 178-184
mark_notification_read(p, notification_id) ==
    /\ pc[p] = "idle"
    /\ IF notification_id \in DOMAIN notifications
       THEN /\ notifications' = [notifications EXCEPT ![notification_id].is_read = TRUE]
            /\ pc' = [pc EXCEPT ![p] = "done"]
            /\ loc' = [loc EXCEPT ![p].op = "mark_notification_read",
                                  ![p].id = notification_id, ![p].ret.ok = TRUE]
       ELSE /\ pc' = [pc EXCEPT ![p] = "done"]
            /\ loc' = [loc EXCEPT ![p].op = "mark_notification_read",
                                  ![p].id = notification_id]
            /\ UNCHANGED notifications
    /\ UNCHANGED <<today, services, bookings, next_booking_id, subscriptions, session>>

\* get_unread_count, lines 288-298: the bookings of the phone, then the count
\* of the unread notifications of these bookings
get_unread_count(phone) ==
    LET booking_ids == {b \in DOMAIN bookings : bookings[b].phone = phone}
    IN  Cardinality({n \in DOMAIN notifications :
                        /\ notifications[n].booking_id \in booking_ids
                        /\ notifications[n].is_read = FALSE})

\* cancel_booking(booking_id, cancelled_by_admin=True), lines 302-310
cancel_booking_by_admin(p, booking_id) ==
    /\ pc[p] = "idle"
    /\ IF booking_id \notin DOMAIN bookings
       THEN /\ pc' = [pc EXCEPT ![p] = "done"]
            /\ loc' = [loc EXCEPT ![p].op = "cancel_booking_admin", ![p].id = booking_id]
            /\ UNCHANGED bookings
       ELSE /\ Len(notifications) < MaxNotifications
            /\ bookings' = [bookings EXCEPT ![booking_id].status = "cancelled"]
            /\ pc' = [pc EXCEPT ![p] = "scn_record"]
            /\ loc' = [loc EXCEPT ![p].op = "cancel_booking_admin", ![p].id = booking_id,
                                  ![p].ret = [NoRet EXCEPT
                                                 !.was = bookings[booking_id].status]]
    /\ UNCHANGED <<today, services, next_booking_id, subscriptions, notifications, session>>

\* variant: an exception of the notification service reaches the caller
ScnRecord_propagates(p, outcome) ==
    /\ pc[p] = "scn_record"
    /\ IF outcome = "created"
       THEN /\ notifications' =
                   create_notification_record(notifications, loc[p].id, CancellationTitle,
                       CancellationMessage(bookings[loc[p].id]), "cancellation")
            /\ pc' = [pc EXCEPT ![p] = "scn_push"]
            /\ loc' = [loc EXCEPT ![p].notification = Len(notifications) + 1]
       ELSE /\ pc' = [pc EXCEPT ![p] = "done"]
            /\ loc' = [loc EXCEPT ![p].dispatch = outcome,
                                  ![p].ret.ok = (outcome = "failed"),
                                  ![p].ret.raised = (outcome = "raised")]
            /\ UNCHANGED notifications
    /\ UNCHANGED <<today, services, bookings, next_booking_id, subscriptions, session>>

\* send_cancellation_notification, lines 201-219, and the handlers of lines
\* 230-232 and of cancel_booking, lines 314-317
ScnRecord(p, outcome) ==
    /\ pc[p] = "scn_record"
    /\ IF outcome = "created"
       THEN /\ notifications' =
                   create_notification_record(notifications, loc[p].id, CancellationTitle,
                       CancellationMessage(bookings[loc[p].id]), "cancellation")
            /\ pc' = [pc EXCEPT ![p] = "scn_push"]
            /\ loc' = [loc EXCEPT ![p].notification = Len(notifications) + 1]
       ELSE /\ pc' = [pc EXCEPT ![p] = "done"]
            /\ loc' = [loc EXCEPT ![p].dispatch = outcome, ![p].ret.ok = TRUE]
            /\ UNCHANGED notifications
    /\ UNCHANGED <<today, services, bookings, next_booking_id, subscriptions, session>>

\* send_cancellation_notification, lines 222-228, and cancel_booking, line 317
ScnPush(p, transport) ==
    /\ pc[p] = "scn_push"
    /\ LET sent == Dispatch(loc[p].id, loc[p].notification, transport)
       IN  /\ subscriptions' = sent.subscriptions
           /\ notifications' = sent.notifications
           /\ pc' = [pc EXCEPT ![p] = "done"]
           /\ loc' = [loc EXCEPT ![p].dispatch = sent.dispatch,
                                 ![p].transport = IF sent.dispatch = "pushed"
                                                  THEN transport ELSE NoTransport,
                                 ![p].push_ret = sent.push_ret,
                                 ![p].ret.ok = TRUE]
    /\ UNCHANGED <<today, services, bookings, next_booking_id, session>>

\* ----------------------------------------------------------------- scheduler
\* variant: the sweep does not filter on the status
SweepQuery_any_status(p) ==
    /\ pc[p] = "idle"
    /\ LET found == {i \in DOMAIN bookings : bookings[i].date = today + 1}
       IN  /\ Len(notifications) + Cardinality(found) <= MaxNotifications
           /\ pc' = [pc EXCEPT ![p] = "sw_loop"]
           /\ loc' = [loc EXCEPT ![p].op = "check_upcoming_bookings",
                                 ![p].pending = found,
                                 ![p].base = Len(notifications)]
    /\ UNCHANGED <<today, services, bookings, next_booking_id, subscriptions, notifications, session>>

\* check_upcoming_bookings, lines 16-22: the confirmed bookings of tomorrow
SweepQuery(p) ==
    /\ pc[p] = "idle"
    /\ LET found == {i \in DOMAIN bookings : /\ bookings[i].date = today + 1
                                             /\ bookings[i].status = "confirmed"}
       IN  /\ Len(notifications) + Cardinality(found) <= MaxNotifications
           /\ pc' = [pc EXCEPT ![p] = "sw_loop"]
           /\ loc' = [loc EXCEPT ![p].op = "check_upcoming_bookings",
                                 ![p].pending = found,
                                 ![p].base = Len(notifications)]
    /\ UNCHANGED <<today, services, bookings, next_booking_id, subscriptions, notifications, session>>

\* check_upcoming_bookings, lines 27-32, one turn of the loop (the query sets
\* no order), with send_reminder_notification, lines 244-262 and 273-275
SwRecord(p, booking_id, outcome) ==
    /\ pc[p] = "sw_loop"
    /\ booking_id \in loc[p].pending
    /\ IF outcome = "created"
       THEN /\ notifications' =
                   create_notification_record(notifications, booking_id, ReminderTitle,
                       ReminderMessage(bookings[booking_id]), "reminder")
            /\ pc' = [pc EXCEPT ![p] = "sw_push"]
            /\ loc' = [loc EXCEPT ![p].id = booking_id,
                                  ![p].notification = Len(notifications) + 1]
       ELSE /\ pc' = pc
            /\ loc' = [loc EXCEPT ![p].id = booking_id,
                                  ![p].dispatch = outcome,
                                  ![p].pending = @ \ {booking_id},
                                  ![p].failed = @ \cup {booking_id}]
            /\ UNCHANGED notifications
    /\ UNCHANGED <<today, services, bookings, next_booking_id, subscriptions, session>>

\* send_reminder_notification, lines 265-271, and back to the loop
SwPush(p, transport) ==
    /\ pc[p] = "sw_push"
    /\ LET sent == Dispatch(loc[p].id, loc[p].notification, transport)
       IN  /\ subscriptions' = sent.subscriptions
           /\ notifications' = sent.notifications
           /\ pc' = [pc EXCEPT ![p] = "sw_loop"]
           /\ loc' = [loc EXCEPT ![p].dispatch = sent.dispatch,
                                 ![p].transport = IF sent.dispatch = "pushed"
                                                  THEN transport ELSE NoTransport,
                                 ![p].push_ret = sent.push_ret,
                                 ![p].pending = @ \ {loc[p].id}]
    /\ UNCHANGED <<today, services, bookings, next_booking_id, session>>

\* check_upcoming_bookings: the loop has come to the end of the list
SwEnd(p) ==
    /\ pc[p] = "sw_loop"
    /\ loc[p].pending = {}
    /\ pc' = [pc EXCEPT ![p] = "done"]
    /\ loc' = [loc EXCEPT ![p].ret.ok = TRUE]
    /\ UNCHANGED <<today, services, bookings, next_booking_id, subscriptions, notifications, session>>

\* ------------------------------------------------- AuthService, admin routes
\* hash_password: the bcrypt hash of the password (the salt is left out: the
\* hash of a password is compared only with hashes of the same salt)
hash_password(password) == <<"$2b$", password>>

\* verify_password, lines 36-38
verify_password(password, password_hash) == hash_password(password) = password_hash

\* table admin_users as _seed_default_admin leaves it; no route changes it
AdminUsers == <<[username |-> "admin", password_hash |-> hash_password("admin123")]>>

\* is_authenticated, line 74
is_authenticated == "admin_id" \in DOMAIN session

\* the login route, lines 16-26, with AuthService.login.  A form without the
\* password field gives None, whose encode() raises when the user exists.
login(p, username, password) ==
    /\ pc[p] = "idle"
    /\ pc' = [pc EXCEPT ![p] = "done"]
    /\ LET found == {i \in DOMAIN AdminUsers : AdminUsers[i].username = username}
           user == CHOOSE i \in found : \A j \in found : i <= j
           entered == [loc EXCEPT ![p].op = "login", ![p].name = username,
                                  ![p].password = password]
       IN  IF found = {}
           THEN /\ loc' = entered
                /\ UNCHANGED session
           ELSE IF password = Unset
           THEN /\ loc' = [entered EXCEPT ![p].ret.raised = TRUE]
                /\ UNCHANGED session
           ELSE IF verify_password(password, AdminUsers[user].password_hash)
           THEN /\ session' = [k \in DOMAIN session \cup {"admin_id", "admin_username", "_permanent"} |->
                                  IF k = "admin_id" THEN user
                                  ELSE IF k = "admin_username" THEN AdminUsers[user].username
                                  ELSE TRUE]
                /\ loc' = [entered EXCEPT ![p].ret.ok = TRUE]
           ELSE /\ loc' = entered
                /\ UNCHANGED session
    /\ UNCHANGED <<today, services, bookings, next_booking_id, subscriptions, notifications>>

\* variant: the decorator lets every request through
login_required_open(p, f) ==
    f

\* login_required, lines 17-21: f is the route's handler
login_required(p, f) ==
    IF ~is_authenticated
    THEN /\ pc[p] = "idle"
         /\ pc' = [pc EXCEPT ![p] = "done"]
         /\ loc' = [loc EXCEPT ![p].op = "login_required"]
         /\ UNCHANGED <<today, services, bookings, next_booking_id, subscriptions,
                        notifications, session>>
    ELSE f

\* AuthService.logout, lines 64-65
logout(p) ==
    /\ pc[p] = "idle"
    /\ pc' = [pc EXCEPT ![p] = "done"]
    /\ loc' = [loc EXCEPT ![p].op = "logout", ![p].ret.ok = TRUE]
    /\ session' = [k \in DOMAIN session \ {"admin_id", "admin_username"} |-> session[k]]
    /\ UNCHANGED <<today, services, bookings, next_booking_id, subscriptions, notifications>>

\* routes of admin.py: logout (29-35), cancel_booking (151-160), create_service
\* (62-80: a missing or empty name is answered before ServiceManager is
\* called), toggle_service (83-92), delete_service (95-107: the route's own
\* can_delete_service reads the rows that delete_service reads next)
admin_logout(p) == login_required(p, logout(p))

admin_cancel_booking(p, booking_id) ==
    login_required(p, cancel_booking_by_admin(p, booking_id))

admin_create_service(p, name, description) ==
    login_required(p,
        IF name \in {Unset, ""}
        THEN /\ pc[p] = "idle"
             /\ pc' = [pc EXCEPT ![p] = "done"]
             /\ loc' = [loc EXCEPT ![p].op = "create_service", ![p].name = name]
             /\ UNCHANGED <<today, services, bookings, next_booking_id, subscriptions,
                            notifications, session>>
        ELSE create_service(p, name, description))

admin_toggle_service(p, service_id) ==
    login_required(p, toggle_service_status(p, service_id))

admin_delete_service(p, service_id) ==
    login_required(p, DsCanDelete(p, service_id))

\* the clock passes midnight
Tick ==
    /\ today < MaxDay
    /\ today' = today + 1
    /\ UNCHANGED <<services, bookings, next_booking_id, pc, loc, subscriptions, notifications, session>>

\* ---------------------------------------------------------- specifications
\* SeqSpec: create_booking and cancel_booking, each call run to completion
\* by one worker before the next one starts
SeqArgs == GoodArgs(today, {1}, {0, 1}) \cup UntidyArgs(today) \cup BadArgs(today)

SeqNext ==
    \/ \E a \in SeqArgs : CbValidate("r1", a)
    \/ CbCheck("r1")
    \/ \E random_part \in SuffixPool : CbRef("r1", random_part)
    \/ CbInsert("r1")
    \/ \E booking_id \in BookingIds : cancel_booking("r1", booking_id)
    \/ Return("r1")

SeqSpec == Init /\ [][SeqNext]_vars

\* Spec: requests of two workers interleave between their queries
ConcArgs == GoodArgs(today, {1}, {0}) \cup {[BaseArgs(today) EXCEPT !.camp = CampOther]}

Next ==
    \/ \E p \in Procs : \E a \in ConcArgs : CbValidate(p, a)
    \/ \E p \in Procs : CbCheck(p)
    \/ \E p \in Procs : \E random_part \in SuffixPool : CbRef(p, random_part)
    \/ \E p \in Procs : CbInsert(p)
    \/ \E p \in Procs : \E booking_id \in BookingIds : cancel_booking(p, booking_id)
    \/ \E p \in Procs : toggle_service_status(p, 1)
    \/ \E p \in Procs : DsCanDelete(p, 1)
    \/ \E p \in Procs : DsGet(p)
    \/ \E p \in Procs : DsRecheck(p)
    \/ \E p \in Procs : DsDelete(p)
    \/ \E p \in Procs : Return(p)

Spec == Init /\ [][Next]_vars


\* db.session.delete(booking); db.session.commit() as the deletion tests do it
RemoveBooking(booking_id) ==
    /\ AllIdle
    /\ booking_id \in DOMAIN bookings
    /\ bookings' = Remove(bookings, {booking_id})
    /\ UNCHANGED <<today, services, next_booking_id, pc, loc, subscriptions, notifications, session>>

\* DelSpec: bookings of two services are created, cancelled and removed and
\* the services deleted, each call run to completion by one worker
DelArgs == GoodArgs(today, {1, 2}, {0})

DelNext ==
    \/ \E a \in DelArgs : CbValidate("r1", a)
    \/ CbCheck("r1")
    \/ \E random_part \in SuffixPool : CbRef("r1", random_part)
    \/ CbInsert("r1")
    \/ \E booking_id \in BookingIds : cancel_booking("r1", booking_id)
    \/ \E booking_id \in BookingIds : RemoveBooking(booking_id)
    \/ \E service_id \in {1, 2} : DsCanDelete("r1", service_id)
    \/ DsGet("r1")
    \/ DsRecheck("r1")
    \/ DsDelete("r1")
    \/ Return("r1")

DelSpec == Init /\ [][DelNext]_vars


\* ClockSpec: create_booking calls, each run to completion, on successive days
ClockArgs == GoodArgs(today, {1}, {0, 1}) \cup UntidyArgs(today)

ClockNext ==
    \/ \E a \in ClockArgs : CbValidate("r1", a)
    \/ CbCheck("r1")
    \/ \E random_part \in SuffixPool : CbRef("r1", random_part)
    \/ CbInsert("r1")
    \/ Return("r1")
    \/ AllIdle /\ Tick

ClockSpec == Init /\ [][ClockNext]_vars


\* a confirmed booking as create_booking stores it on day 0
SeedBooking(booking_date, time_slot, phone, random_part) ==
    [service_id |-> 1, date |-> booking_date, time_slot |-> time_slot,
     last_name |-> NameIva, first_name |-> NameIva, phone |-> phone,
     camp |-> CAMPS[1], status |-> "confirmed",
     reference_number |-> Strftime(0) \o <<"-">> \o random_part]

\* NotifSpec: two bookings for tomorrow exist; subscriptions are saved,
\* bookings cancelled by the admin and reminder sweeps run, one call at a time
NotifBookings ==
    <<SeedBooking(1, Slot1000, PhoneFormatted, <<"A", "B", "C", "D">>),
      SeedBooking(1, Slot1015, PhoneOther, <<"Z", "9", "0", "Q">>)>>

NotifInit ==
    /\ today = 0
    /\ services = SeedServices
    /\ bookings = NotifBookings
    /\ next_booking_id = Len(NotifBookings) + 1
    /\ subscriptions = <<>>
    /\ notifications = <<>>
    /\ session = NoSession
    /\ pc = [p \in Procs |-> "idle"]
    /\ loc = [p \in Procs |-> IdleLoc]

NotifNext ==
    \/ \E booking_id \in DOMAIN NotifBookings : \E subscription_data \in {DataA, DataB, DataNoAuth} :
          SsQuery("r1", booking_id, subscription_data)
    \/ SsCommit("r1")
    \/ \E booking_id \in DOMAIN NotifBookings \cup {9} : cancel_booking_by_admin("r1", booking_id)
    \/ \E outcome \in RecordOutcomes : ScnRecord("r1", outcome)
    \/ \E transport \in Transports : ScnPush("r1", transport)
    \/ SweepQuery("r1")
    \/ \E booking_id \in DOMAIN NotifBookings : \E outcome \in RecordOutcomes :
          SwRecord("r1", booking_id, outcome)
    \/ \E transport \in Transports : SwPush("r1", transport)
    \/ SwEnd("r1")
    \/ Return("r1")

NotifSpec == NotifInit /\ [][NotifNext]_vars

\* ReadSpec: three bookings exist, two of one phone, the first with a push
\* subscription; notifications are created by admin cancellations and
\* reminder sweeps and marked as read, one call at a time
ReadBookings ==
    <<SeedBooking(1, Slot1000, PhoneFormatted, <<"A", "B", "C", "D">>),
      SeedBooking(1, Slot1015, PhoneOther, <<"Z", "9", "0", "Q">>),
      SeedBooking(2, Slot1000, PhoneFormatted, <<"7", "K", "7", "K">>)>>

ReadInit ==
    /\ today = 0
    /\ services = SeedServices
    /\ bookings = ReadBookings
    /\ next_booking_id = Len(ReadBookings) + 1
    /\ subscriptions = <<[booking_id |-> 1, endpoint |-> DataA.endpoint,
                          p256dh_key |-> DataA.keys.p256dh, auth_key |-> DataA.keys.auth]>>
    /\ notifications = <<>>
    /\ session = NoSession
    /\ pc = [p \in Procs |-> "idle"]
    /\ loc = [p \in Procs |-> IdleLoc]

ReadNext ==
    \/ \E booking_id \in DOMAIN ReadBookings : cancel_booking_by_admin("r1", booking_id)
    \/ \E outcome \in RecordOutcomes : ScnRecord("r1", outcome)
    \/ \E transport \in Transports : ScnPush("r1", transport)
    \/ SweepQuery("r1")
    \/ \E booking_id \in DOMAIN ReadBookings : \E outcome \in RecordOutcomes :
          SwRecord("r1", booking_id, outcome)
    \/ \E transport \in Transports : SwPush("r1", transport)
    \/ SwEnd("r1")
    \/ \E notification_id \in 1..(MaxNotifications + 1) :
          mark_notification_read("r1", notification_id)
    \/ Return("r1")

ReadSpec == ReadInit /\ [][ReadNext]_vars

\* SweepSpec: bookings for today, tomorrow (three) and the day after exist, the
\* first with a push subscription; bookings are cancelled, the clock passes
\* midnight and reminder sweeps run, one call at a time
SweepBookings ==
    <<SeedBooking(1, Slot1000, PhoneFormatted, <<"A", "B", "C", "D">>),
      SeedBooking(1, Slot1015, PhoneOther, <<"Z", "9", "0", "Q">>),
      SeedBooking(1, Slot1000, PhoneOther, <<"A", "A", "A", "1">>),
      SeedBooking(2, Slot1000, PhoneFormatted, <<"7", "K", "7", "K">>),
      SeedBooking(0, Slot1000, PhoneOther, <<"Q", "Q", "1", "1">>)>>

SweepInit ==
    /\ today = 0
    /\ services = SeedServices
    /\ bookings = SweepBookings
    /\ next_booking_id = Len(SweepBookings) + 1
    /\ subscriptions = <<[booking_id |-> 1, endpoint |-> DataA.endpoint,
                          p256dh_key |-> DataA.keys.p256dh, auth_key |-> DataA.keys.auth]>>
    /\ notifications = <<>>
    /\ session = NoSession
    /\ pc = [p \in Procs |-> "idle"]
    /\ loc = [p \in Procs |-> IdleLoc]

SweepNext ==
    \/ \E booking_id \in DOMAIN SweepBookings : cancel_booking("r1", booking_id)
    \/ SweepQuery("r1")
    \/ \E booking_id \in DOMAIN SweepBookings : \E outcome \in RecordOutcomes :
          SwRecord("r1", booking_id, outcome)
    \/ \E transport \in Transports : SwPush("r1", transport)
    \/ SwEnd("r1")
    \/ AllIdle /\ Tick
    \/ Return("r1")

SweepSpec == SweepInit /\ [][SweepNext]_vars


\* SvcSpec: services are switched off and on and bookings created for
\* services that are active, inactive or missing, one call at a time
SvcArgs == {[BaseArgs(today) EXCEPT !.service_id = s] : s \in {1, 2, 9}}

SvcNext ==
    \/ \E a \in SvcArgs : CbValidate("r1", a)
    \/ CbCheck("r1")
    \/ \E random_part \in SuffixPool : CbRef("r1", random_part)
    \/ CbInsert("r1")
    \/ \E service_id \in {1, 2, 9} : toggle_service_status("r1", service_id)
    \/ \E service_id \in {1, 2, 9} : deactivate_service("r1", service_id)
    \/ Return("r1")

SvcSpec == Init /\ [][SvcNext]_vars

\* DateSpec: bookings for the days around both ends of the look-ahead window
\* are asked for on successive days, one call at a time
DateArgs ==
    {[BaseArgs(today) EXCEPT !.date = today + o] :
        o \in {-1, 0, CALENDAR_DAYS_AHEAD, CALENDAR_DAYS_AHEAD + 1}}

DateNext ==
    \/ \E a \in DateArgs : CbValidate("r1", a)
    \/ CbCheck("r1")
    \/ \E random_part \in SuffixPool : CbRef("r1", random_part)
    \/ CbInsert("r1")
    \/ Return("r1")
    \/ AllIdle /\ Tick

DateSpec == Init /\ [][DateNext]_vars

\* SlotSpec: create_booking is called with time slots of every shape, one
\* call at a time
SlotArgs == {[BaseArgs(today) EXCEPT !.time_slot = t] : t \in TimeSlotInputs}

SlotNext ==
    \/ \E a \in SlotArgs : CbValidate("r1", a)
    \/ CbCheck("r1")
    \/ \E random_part \in SuffixPool : CbRef("r1", random_part)
    \/ CbInsert("r1")
    \/ Return("r1")

SlotSpec == Init /\ [][SlotNext]_vars

\* NameSpec: services are created and renamed, with names that are free,
\* taken, empty or left out, one call at a time
ServiceNameInputs ==
    {SeedServices[1].name, SeedServices[2].name, "Konsultaciya", "Spravka"}

NameNext ==
    \/ \E name \in ServiceNameInputs : create_service("r1", name, "")
    \/ \E service_id \in {1, 2, 4, 9} : \E name \in ServiceNameInputs \cup {Unset, ""} :
       \E fields \in {<<Unset, UnsetList>>, <<"Novoe opisanie", <<"pasport">>>>} :
          update_service("r1", service_id, name, fields[1], fields[2])
    \/ Return("r1")

NameSpec == Init /\ [][NameNext]_vars

\* OrderSpec: services are created, renamed, switched off and on and deleted
\* and the active services listed, one call at a time
OrderNames == {"Konsultaciya", "Spravka", "Spravka v sad"}

OrderNext ==
    \/ \E name \in OrderNames : create_service("r1", name, "")
    \/ \E service_id \in {1, 4} : \E name \in OrderNames :
          update_service("r1", service_id, name, Unset, UnsetList)
    \/ \E service_id \in 1..MaxServices : toggle_service_status("r1", service_id)
    \/ \E service_id \in {2, 3} : DsCanDelete("r1", service_id)
    \/ DsGet("r1")
    \/ DsRecheck("r1")
    \/ DsDelete("r1")
    \/ get_active_services("r1")
    \/ Return("r1")

OrderSpec == Init /\ [][OrderNext]_vars

\* AuthSpec: one browser logs in and out and calls the admin routes that
\* change bookings and services, logged in or not, one request at a time
AuthBookings ==
    <<SeedBooking(1, Slot1000, PhoneFormatted, <<"A", "B", "C", "D">>)>>

AuthInit ==
    /\ today = 0
    /\ services = SeedServices
    /\ bookings = AuthBookings
    /\ next_booking_id = Len(AuthBookings) + 1
    /\ subscriptions = <<>>
    /\ notifications = <<>>
    /\ session = NoSession
    /\ pc = [p \in Procs |-> "idle"]
    /\ loc = [p \in Procs |-> IdleLoc]

AuthNext ==
    \/ \E username \in {"admin", "root"} : \E password \in {"admin123", "qwerty", Unset} :
          login("r1", username, password)
    \/ admin_logout("r1")
    \/ \E booking_id \in DOMAIN AuthBookings \cup {9} : admin_cancel_booking("r1", booking_id)
    \/ \E outcome \in RecordOutcomes : ScnRecord("r1", outcome)
    \/ \E transport \in Transports : ScnPush("r1", transport)
    \/ \E name \in {"Spravka", SeedServices[1].name, ""} : admin_create_service("r1", name, "")
    \/ \E service_id \in {1, 9} : admin_toggle_service("r1", service_id)
    \/ \E service_id \in {1, 3} : admin_delete_service("r1", service_id)
    \/ DsGet("r1")
    \/ DsRecheck("r1")
    \/ DsDelete("r1")
    \/ Return("r1")

AuthSpec == AuthInit /\ [][AuthNext]_vars

\* LiveSpec: create_booking calls of two workers interleave while the suffixes
\* that random.choices can draw are so few that they run out; the draw is
\* fair: a suffix that stays free is drawn in the end.
RefPool == {<<"A", "B", "C", "D">>, <<"Z", "9", "0", "Q">>}

RefArgs == GoodArgs(today, {1}, {0})

RefNext ==
    \/ \E p \in Procs : \E a \in RefArgs : CbValidate(p, a)
    \/ \E p \in Procs : CbCheck(p)
    \/ \E p \in Procs : \E random_part \in RefPool : CbRef(p, random_part)
    \/ \E p \in Procs : CbInsert(p)
    \/ \E p \in Procs : Return(p)

LiveSpec ==
    /\ Init /\ [][RefNext]_vars
    /\ \A p \in Procs : \A random_part \in RefPool : WF_vars(CbRef(p, random_part))

\* ------------------------------------------------------------- properties
RECURSIVE CountConfirmed(_, _, _, _)
\* rows number 1..n of table that are confirmed bookings of the slot, counted one by one
CountConfirmed(table, n, d, t) ==
    IF n = 0 THEN 0
    ELSE CountConfirmed(table, n - 1, d, t)
         + (IF /\ n \in DOMAIN table
               /\ table[n].status = "confirmed"
               /\ table[n].date = d
               /\ table[n].time_slot = t
            THEN 1 ELSE 0)

NumConfirmed(table, d, t) == CountConfirmed(table, MaxBookings + 1, d, t)

RowsOfSlot(d, t) ==
    {i \in DOMAIN bookings : bookings[i].date = d /\ bookings[i].time_slot = t}

FieldKeys == {"service", "date", "time_slot", "last_name", "first_name", "phone", "camp"}

\* worker p reaches the return statement of create_booking in this step
CreateEnds(p) ==
    pc[p] \in {"idle", "cb_check", "cb_ref", "cb_insert"} /\ pc'[p] = "done"
    /\ loc'[p].op = "create_booking"

\* worker p takes a step inside create_booking in this step
CreateSteps(p) ==
    pc'[p] # pc[p] /\ loc'[p].op = "create_booking"

\* worker p runs cancel_booking in this step
CancelEnds(p) ==
    pc[p] = "idle" /\ pc'[p] = "done" /\ loc'[p].op = "cancel_booking"

\* C1: when calls run one after the other, no (date, time slot) ever holds
\* more than MAX_BOOKINGS_PER_SLOT confirmed bookings.
C1_SlotCapacity ==
    \A i \in DOMAIN bookings :
        NumConfirmed(bookings, bookings[i].date, bookings[i].time_slot)
            <= MAX_BOOKINGS_PER_SLOT

\* a slot filled to the maximum that also holds a cancelled booking
C1_Witness ==
    \E i \in DOMAIN bookings :
        /\ bookings[i].status = "cancelled"
        /\ NumConfirmed(bookings, bookings[i].date, bookings[i].time_slot)
               = MAX_BOOKINGS_PER_SLOT

\* C3: create_booking with valid data for a slot that holds the maximum of
\* confirmed bookings returns (None, errors) with the single key time_slot
\* and leaves the bookings table as it was.
C3_FullSlotRejected ==
    [][\A p \in Procs :
        (/\ CreateEnds(p)
         /\ validate_booking_data(loc'[p].args) = {}
         /\ NumConfirmed(bookings, loc'[p].args.date, loc'[p].args.time_slot)
                >= MAX_BOOKINGS_PER_SLOT)
        => (/\ loc'[p].ret.booking = None
            /\ loc'[p].ret.errors = {"time_slot"}
            /\ ~loc'[p].ret.raised
            /\ bookings' = bookings)]_vars

\* a call with valid data has just been refused for a full slot
C3_Witness ==
    \E p \in Procs :
        /\ pc[p] = "done" /\ loc[p].op = "create_booking"
        /\ validate_booking_data(loc[p].args) = {}
        /\ loc[p].ret.errors = {"time_slot"}
        /\ Cardinality({i \in RowsOfSlot(loc[p].args.date, loc[p].args.time_slot) :
                            bookings[i].status = "confirmed"}) = MAX_BOOKINGS_PER_SLOT

C9_AvailabilityCountsConfirmed ==
    /\ \A d \in (today - 1)..(today + 2) : \A t \in {Slot1000, Slot1015, Slot1007} :
          /\ get_slot_count(d, t) = NumConfirmed(bookings, d, t)
          /\ \A m \in 0..(MAX_BOOKINGS_PER_SLOT + 1) :
                is_slot_available(d, t, m) = (NumConfirmed(bookings, d, t) < m)
    /\ \A d \in today..(today + 1) :
          LET response == get_slots(d)
          IN  /\ response.status = 200
              /\ \A i \in 1..Len(TIME_SLOTS) :
                    LET entry == response.slots[i]
                        confirmed == NumConfirmed(bookings, d, TIME_SLOTS[i])
                    IN  /\ entry.time = TIME_SLOTS[i]
                        /\ entry.count = confirmed
                        /\ entry.available = (confirmed < MAX_BOOKINGS_PER_SLOT)

\* a slot with as many rows as the maximum or more, cancelled ones among
\* them, that is still available
C9_Witness ==
    \E i \in DOMAIN bookings :
        LET d == bookings[i].date
            t == bookings[i].time_slot
        IN  /\ Cardinality(RowsOfSlot(d, t)) > MAX_BOOKINGS_PER_SLOT
            /\ is_slot_available(d, t, MAX_BOOKINGS_PER_SLOT)
            /\ get_slot_count(d, t) > 0

\* C10: cancelling a confirmed booking of a full slot lowers the slot's
\* confirmed count by exactly one, and a create_booking call with valid data
\* for a slot below the maximum inserts a confirmed booking into it.
C10_CancelFreesCapacity ==
    [][\A p \in Procs :
        /\ \A b \in DOMAIN bookings :
              (/\ CancelEnds(p) /\ loc'[p].id = b
               /\ bookings[b].status = "confirmed"
               /\ NumConfirmed(bookings, bookings[b].date, bookings[b].time_slot)
                      = MAX_BOOKINGS_PER_SLOT)
              => NumConfirmed(bookings', bookings[b].date, bookings[b].time_slot)
                      = MAX_BOOKINGS_PER_SLOT - 1
        /\ (/\ CreateEnds(p)
            /\ validate_booking_data(loc'[p].args) = {}
            /\ NumConfirmed(bookings, loc'[p].args.date, loc'[p].args.time_slot)
                   < MAX_BOOKINGS_PER_SLOT)
           => (/\ loc'[p].ret.booking \in DOMAIN bookings' \ DOMAIN bookings
               /\ bookings'[loc'[p].ret.booking].status = "confirmed"
               /\ bookings'[loc'[p].ret.booking].date = loc'[p].args.date
               /\ bookings'[loc'[p].ret.booking].time_slot = loc'[p].args.time_slot
               /\ NumConfirmed(bookings', loc'[p].args.date, loc'[p].args.time_slot)
                    = NumConfirmed(bookings, loc'[p].args.date, loc'[p].args.time_slot) + 1)
      ]_vars

\* the slot was filled by bookings x and y, y was cancelled, and the call
\* that has just returned put booking z into the freed place
C10_Witness ==
    \E p \in Procs : \E x, y \in DOMAIN bookings :
        LET z == loc[p].ret.booking
        IN  /\ pc[p] = "done" /\ loc[p].op = "create_booking"
            /\ z \in DOMAIN bookings /\ x < y /\ y < z
            /\ \A i \in {x, y} : /\ bookings[i].date = bookings[z].date
                                 /\ bookings[i].time_slot = bookings[z].time_slot
            /\ bookings[x].status = "confirmed"
            /\ bookings[y].status = "cancelled"
            /\ bookings[z].status = "confirmed"

\* C2: nothing ties the capacity check to the insert: a worker that counted
\* max-1 confirmed bookings at its check and reaches its insert when the slot
\* holds max (another request inserted in between) still inserts, and the
\* slot then holds max+1 confirmed bookings.
C2_CheckThenInsertRace ==
    [][\A p \in Procs :
        (/\ pc[p] = "cb_insert" /\ pc'[p] = "done"
         /\ loc[p].count = MAX_BOOKINGS_PER_SLOT - 1
         /\ NumConfirmed(bookings, loc[p].args.date, loc[p].args.time_slot)
                = MAX_BOOKINGS_PER_SLOT
         /\ \A i \in DOMAIN bookings : bookings[i].reference_number # loc[p].reference
         /\ loc[p].args.service_id \in DOMAIN services)
        => (/\ loc'[p].ret.booking \in DOMAIN bookings' \ DOMAIN bookings
            /\ NumConfirmed(bookings', loc[p].args.date, loc[p].args.time_slot)
                 = MAX_BOOKINGS_PER_SLOT + 1)]_vars

\* both workers counted max-1 at their checks, both have inserted, and the
\* slot holds max+1 confirmed bookings
C2_Witness ==
    /\ \A p \in Procs :
          /\ pc[p] = "done" /\ loc[p].op = "create_booking"
          /\ loc[p].count = MAX_BOOKINGS_PER_SLOT - 1
          /\ loc[p].ret.booking \in DOMAIN bookings
    /\ \E p \in Procs :
          /\ \A q \in Procs : /\ loc[q].args.date = loc[p].args.date
                              /\ loc[q].args.time_slot = loc[p].args.time_slot
          /\ NumConfirmed(bookings, loc[p].args.date, loc[p].args.time_slot)
                = MAX_BOOKINGS_PER_SLOT + 1

BookingData(row) ==
    <<row.service_id, row.date, row.time_slot, row.last_name, row.first_name,
      row.phone, row.camp, row.reference_number>>

\* C8: in every step, a booking that stays in the table keeps all its fields
\* but status, and its status either stays or goes from confirmed to
\* cancelled; a cancelled booking stays cancelled.
C8_StatusOnlyToCancelled ==
    [][\A i \in DOMAIN bookings \cap DOMAIN bookings' :
        /\ BookingData(bookings'[i]) = BookingData(bookings[i])
        /\ bookings'[i].status \in {"confirmed", "cancelled"}
        /\ bookings[i].status = "cancelled" => bookings'[i].status = "cancelled"
        /\ bookings'[i].status # bookings[i].status
              => bookings[i].status = "confirmed" /\ bookings'[i].status = "cancelled"
      ]_vars

\* cancel_booking has just run on a booking that was cancelled before, while
\* another booking is confirmed
C8_Witness ==
    \E p \in Procs :
        /\ pc[p] = "done" /\ loc[p].op = "cancel_booking"
        /\ loc[p].ret.was = "cancelled"
        /\ loc[p].id \in DOMAIN bookings
        /\ bookings[loc[p].id].status = "cancelled"
        /\ \E j \in DOMAIN bookings : bookings[j].status = "confirmed"

BookingsOf(table, service_id) == {i \in DOMAIN table : table[i].service_id = service_id}

\* worker p reaches the return statement of delete_service in this step
DeleteEnds(p) ==
    pc[p] \in {"idle", "ds_get", "ds_recheck", "ds_delete"} /\ pc'[p] = "done"
    /\ loc'[p].op = "delete_service"

\* C4: can_delete_service is true exactly when no booking of any status
\* references the service; delete_service on an existing service returns True
\* and removes it exactly then, and otherwise returns False and leaves the
\* service and all bookings in place.
C4_DeletableIffNoBookings ==
    [][/\ \A service_id \in DOMAIN services :
            can_delete_service(service_id) = (BookingsOf(bookings, service_id) = {})
       /\ \A p \in Procs :
            (DeleteEnds(p) /\ loc'[p].id \in DOMAIN services) =>
                IF BookingsOf(bookings, loc'[p].id) = {}
                THEN /\ loc'[p].ret.ok
                     /\ loc'[p].id \notin DOMAIN services'
                ELSE /\ ~loc'[p].ret.ok
                     /\ services' = services
                     /\ bookings' = bookings]_vars

\* C5: right after one booking of a service has been removed,
\* can_delete_service is false while another booking of the service, of
\* whatever status, remains and true once none remains; delete_service
\* returns True only for a service that no booking references.
C5_DeletableOnlyAfterLastRemoval ==
    [][/\ \A b \in DOMAIN bookings : \A service_id \in DOMAIN services :
            (/\ DOMAIN bookings' = DOMAIN bookings \ {b} /\ services' = services
             /\ bookings[b].service_id = service_id)
            => (can_delete_service(service_id)'
                  = (BookingsOf(bookings', service_id) = {}))
       /\ \A p \in Procs :
            (DeleteEnds(p) /\ loc'[p].ret.ok) => BookingsOf(bookings, loc'[p].id) = {}
      ]_vars

UniqueReferences(table) ==
    \A i, j \in DOMAIN table :
        table[i].reference_number = table[j].reference_number => i = j

\* YYYYMMDD-XXXX for the calendar date of day n, XXXX over A-Z and 0-9
IsReferenceOfDay(reference, n) ==
    LET ymd == Civil(n).y * 10000 + Civil(n).m * 100 + Civil(n).d
        pow == <<10000000, 1000000, 100000, 10000, 1000, 100, 10, 1>>
    IN  /\ Len(reference) = 8 + 1 + SUFFIX_LENGTH
        /\ \A k \in 1..8 : /\ reference[k] \in Digits
                           /\ DigitVal(reference[k]) = (ymd \div pow[k]) % 10
        /\ reference[9] = "-"
        /\ \A k \in 10..(9 + SUFFIX_LENGTH) : reference[k] \in UpperCase \cup Digits

\* C6: no two bookings share a reference number; the reference of a booking
\* that create_booking inserts is the day's date as YYYYMMDD, a hyphen and
\* four characters over A-Z and 0-9; and the reference that
\* generate_reference_number returns is held by no booking at its check.
C6_ReferenceUniqueAndDated ==
    [][/\ UniqueReferences(bookings) /\ UniqueReferences(bookings')
       /\ \A p \in Procs :
            /\ (CreateEnds(p) /\ loc'[p].ret.booking # None)
                  => IsReferenceOfDay(bookings'[loc'[p].ret.booking].reference_number, today)
            /\ (pc[p] = "cb_ref" /\ pc'[p] = "cb_insert")
                  => \A i \in DOMAIN bookings :
                        bookings[i].reference_number # loc'[p].reference
      ]_vars

\* bookings made on two days carry the same random part behind different
\* dates, and a third has just been given another random part
C6_Witness ==
    /\ \E i, j \in DOMAIN bookings :
          /\ i # j
          /\ SubSeq(bookings[i].reference_number, 10, 13)
                = SubSeq(bookings[j].reference_number, 10, 13)
          /\ SubSeq(bookings[i].reference_number, 1, 8) = Strftime(0)
          /\ SubSeq(bookings[j].reference_number, 1, 8) = Strftime(1)
    /\ Cardinality(DOMAIN bookings) = 3

\* C11: cancel_booking on an existing booking returns True and leaves it
\* cancelled with every other field and every other booking as before, so on
\* a booking that is already cancelled it returns True and changes nothing;
\* on an id that matches no booking it returns False and changes nothing.
C11_CancelIdempotent ==
    [][\A p \in Procs : \A booking_id \in BookingIds \cup {None} :
        (CancelEnds(p) /\ loc'[p].id = booking_id) =>
            IF booking_id \in DOMAIN bookings
            THEN /\ loc'[p].ret.ok /\ ~loc'[p].ret.raised
                 /\ bookings' = [bookings EXCEPT ![booking_id].status = "cancelled"]
                 /\ bookings[booking_id].status = "cancelled" => bookings' = bookings
            ELSE /\ ~loc'[p].ret.ok /\ ~loc'[p].ret.raised
                 /\ bookings' = bookings]_vars

\* a second cancel of the same booking has just returned True, and the
\* table holds another booking besides it
C11_Witness ==
    \E p \in Procs :
        /\ pc[p] = "done" /\ loc[p].op = "cancel_booking"
        /\ loc[p].ret.ok /\ loc[p].ret.was = "cancelled"
        /\ loc[p].id \in DOMAIN bookings
        /\ Cardinality(DOMAIN bookings) >= 2

\* worker p leaves the push step of send_cancellation_notification or of
\* send_reminder_notification in this step
PushEnds(p) ==
    pc[p] \in {"scn_push", "sw_push"} /\ pc'[p] # pc[p]

\* C12: cancel_booking(id, cancelled_by_admin=True) on an existing booking
\* sets the status to cancelled before the notification is sent, and however
\* the notification goes (no record, no subscription, push delivered, push
\* failed, endpoint gone, exception) the call returns True without raising
\* and leaves the bookings as the cancellation left them.
C12_AdminCancelAlwaysSucceeds ==
    [][\A p \in Procs :
        /\ (pc[p] = "idle" /\ pc'[p] = "scn_record")
              => /\ loc'[p].id \in DOMAIN bookings
                 /\ bookings' = [bookings EXCEPT ![loc'[p].id].status = "cancelled"]
        /\ (pc[p] \in {"scn_record", "scn_push"} /\ pc'[p] # pc[p])
              => /\ bookings' = bookings
                 /\ bookings[loc[p].id].status = "cancelled"
                 /\ ~loc'[p].ret.raised
                 /\ pc'[p] = "done" => loc'[p].ret.ok
      ]_vars

\* an admin cancellation of a confirmed booking has returned True although
\* the notification service raised an exception
C12_Witness ==
    \E p \in Procs :
        /\ pc[p] = "done" /\ loc[p].op = "cancel_booking_admin"
        /\ loc[p].dispatch = "raised"
        /\ loc[p].ret.ok /\ loc[p].ret.was = "confirmed"
        /\ bookings[loc[p].id].status = "cancelled"

\* C13: when the push step of send_cancellation_notification or
\* send_reminder_notification ends, whatever the delivery outcome, the record
\* the call created is in the table with its booking and type,
\* get_user_notifications returns it for the booking's phone, and no step
\* removes a notification record.
C13_RecordKept ==
    [][/\ \A n \in DOMAIN notifications :
             /\ n \in DOMAIN notifications'
             /\ notifications'[n].booking_id = notifications[n].booking_id
             /\ notifications'[n].notification_type = notifications[n].notification_type
       /\ \A p \in Procs : \A phone \in {bookings[b].phone : b \in DOMAIN bookings} :
             (PushEnds(p) /\ bookings[loc[p].id].phone = phone) =>
                LET n == loc[p].notification
                    listed == get_user_notifications(phone)'
                IN  /\ n \in DOMAIN notifications'
                    /\ notifications'[n].booking_id = loc[p].id
                    /\ notifications'[n].notification_type
                          = (IF pc[p] = "scn_push" THEN "cancellation" ELSE "reminder")
                    /\ \E k \in DOMAIN listed : listed[k] = n
      ]_vars

\* a reminder whose push was answered with 410 Gone is in the table next to
\* a cancellation notification
C13_Witness ==
    \E p \in Procs :
        /\ loc[p].op = "check_upcoming_bookings"
        /\ loc[p].transport = [kind |-> "webpush", status |-> 410]
        /\ loc[p].notification \in DOMAIN notifications
        /\ notifications[loc[p].notification].notification_type = "reminder"
        /\ \E n \in DOMAIN notifications :
              notifications[n].notification_type = "cancellation"

\* the transport reports the endpoint as gone
EndpointGone(transport) == transport.kind = "webpush" /\ transport.status \in {404, 410}

\* C14: a push that the transport answers with 404 or 410 leaves the
\* booking's subscription deleted, every other push leaves the subscriptions
\* as they were, and every push but a delivered one returns False.
C14_GoneSubscriptionDeleted ==
    [][\A p \in Procs : \A subscription \in DOMAIN subscriptions :
        (/\ PushEnds(p)
         /\ loc'[p].dispatch = "pushed"
         /\ FirstSubscription(loc[p].id) = subscription)
        => /\ IF EndpointGone(loc'[p].transport)
              THEN subscription \notin DOMAIN subscriptions'
              ELSE subscriptions' = subscriptions
           /\ loc'[p].transport.kind # "delivered" => loc'[p].push_ret = "False"
           /\ ~loc'[p].ret.raised
      ]_vars

\* C15: when a sweep has come to its end, the notifications it created are
\* reminders, one for each booking that is confirmed and dated tomorrow and
\* whose reminder did not fail, and none for any other booking.
C15_ReminderForTomorrowOnly ==
    \A p \in Procs :
        (pc[p] = "done" /\ loc[p].op = "check_upcoming_bookings") =>
            LET created == {n \in DOMAIN notifications : n > loc[p].base}
                due == {b \in DOMAIN bookings : /\ bookings[b].status = "confirmed"
                                                /\ bookings[b].date = today + 1}
                of(b) == {n \in created : notifications[n].booking_id = b}
            IN  /\ \A n \in created : notifications[n].notification_type = "reminder"
                /\ loc[p].failed \subseteq due
                /\ \A b \in DOMAIN bookings :
                      Cardinality(of(b)) = IF b \in due \ loc[p].failed THEN 1 ELSE 0

\* a sweep has ended: the reminder of one booking of tomorrow failed, another
\* got its reminder, and the cancelled booking of tomorrow and the bookings
\* of today and of the day after tomorrow got none
C15_Witness ==
    \E p \in Procs :
        /\ pc[p] = "done" /\ loc[p].op = "check_upcoming_bookings"
        /\ loc[p].failed # {}
        /\ \E n \in DOMAIN notifications : n > loc[p].base
        /\ \E b \in DOMAIN bookings : bookings[b].date = today + 1
                                      /\ bookings[b].status = "cancelled"
        /\ \E b \in DOMAIN bookings : bookings[b].date = today

\* C20: no two push subscriptions belong to the same booking; a
\* save_subscription call with complete data for a booking that has a
\* subscription overwrites endpoint and keys of that row and adds none, for a
\* booking without one it adds one row, and the row it returns carries the
\* booking id, the endpoint and the keys of the call.
C20_OneSubscriptionPerBooking ==
    [][/\ \A i, j \in DOMAIN subscriptions' :
             subscriptions'[i].booking_id = subscriptions'[j].booking_id => i = j
       /\ \A p \in Procs :
             (/\ pc[p] = "ss_commit" /\ pc'[p] = "done"
              /\ {"p256dh", "auth"} \subseteq DOMAIN loc[p].data.keys)
             => LET returned == loc'[p].ret.subscription
                    existing == FirstSubscription(loc[p].id)
                IN  /\ returned \in DOMAIN subscriptions'
                    /\ subscriptions'[returned] =
                          [booking_id |-> loc[p].id, endpoint |-> loc[p].data.endpoint,
                           p256dh_key |-> loc[p].data.keys.p256dh,
                           auth_key |-> loc[p].data.keys.auth]
                    /\ \A i \in DOMAIN subscriptions \ {returned} :
                          /\ i \in DOMAIN subscriptions'
                          /\ subscriptions'[i] = subscriptions[i]
                    /\ IF existing # None
                       THEN returned = existing
                            /\ DOMAIN subscriptions' = DOMAIN subscriptions
                       ELSE DOMAIN subscriptions' = DOMAIN subscriptions \cup {returned}
                            /\ returned \notin DOMAIN subscriptions
      ]_vars

\* a second save for a booking has replaced the endpoint and keys of its
\* subscription, while another booking has a subscription of its own
C20_Witness ==
    \E p \in Procs :
        /\ pc[p] = "done" /\ loc[p].op = "save_subscription"
        /\ loc[p].found # None /\ loc[p].ret.subscription = loc[p].found
        /\ loc[p].data = DataB
        /\ subscriptions[loc[p].found].endpoint = DataB.endpoint
        /\ Cardinality(DOMAIN subscriptions) = 2

\* C16: a create_booking call inserts only for a service that exists and is
\* active; for a service that is missing or inactive it returns None with an
\* error map that has the key service, and inserts nothing.
C16_ActiveServiceOnly ==
    [][\A p \in Procs :
        LET service_id == loc'[p].args.service_id
            usable == service_id \in DOMAIN services /\ services[service_id].active
        IN  /\ (CreateSteps(p) /\ bookings' # bookings) => usable
            /\ (CreateEnds(p) /\ ~usable)
                  => /\ loc'[p].ret.booking = None
                     /\ "service" \in loc'[p].ret.errors
                     /\ bookings' = bookings
      ]_vars

\* a booking of service 1 exists, the service has been switched off since,
\* and a further call for it has just been refused for the service alone
C16_Witness ==
    \E p \in Procs :
        /\ pc[p] = "done" /\ loc[p].op = "create_booking"
        /\ loc[p].ret.errors = {"service"}
        /\ loc[p].args.service_id \in DOMAIN services
        /\ ~services[loc[p].args.service_id].active
        /\ \E b \in DOMAIN bookings : bookings[b].service_id = loc[p].args.service_id

\* today <= d <= today + W
InWindow(d) == today <= d /\ d <= today + CALENDAR_DAYS_AHEAD

\* C17: a create_booking call gets a date error exactly when its date lies
\* outside today .. today + CALENDAR_DAYS_AHEAD, and with the other fields
\* valid and room in the slot it inserts a booking for every date inside; a
\* date before today makes validate_date answer "Date cannot be in the
\* past"; the slots endpoint accepts the same dates.
C17_DateWindow ==
    [][\A p \in Procs :
        CreateEnds(p) =>
            LET a == loc'[p].args
                ret == loc'[p].ret
            IN  /\ ("date" \in ret.errors) = ~InWindow(a.date)
                /\ ret.booking # None => InWindow(a.date)
                /\ (/\ InWindow(a.date)
                    /\ NumConfirmed(bookings, a.date, a.time_slot) < MAX_BOOKINGS_PER_SLOT)
                      => /\ ret.booking \in DOMAIN bookings' \ DOMAIN bookings
                         /\ bookings'[ret.booking].date = a.date
                /\ a.date < today
                      => /\ ~validate_date(a.date, today)
                         /\ validate_date_error(a.date, today) = "Date cannot be in the past"
                /\ (get_slots(a.date).status = 200) = InWindow(a.date)
      ]_vars

\* on the second day a booking for the last day of the window has just been
\* made, next to a booking for the day itself
C17_Witness ==
    \E p \in Procs :
        /\ pc[p] = "done" /\ loc[p].op = "create_booking"
        /\ today >= 1
        /\ loc[p].ret.booking \in DOMAIN bookings
        /\ bookings[loc[p].ret.booking].date = today + CALENDAR_DAYS_AHEAD
        /\ \E b \in DOMAIN bookings : bookings[b].date = today

\* exactly two digits, a colon and two digits, hour 00..23, minute 00, 15,
\* 30 or 45
IsQuarterHourSlot(s) ==
    /\ Len(s) = 5
    /\ s[3] = ":"
    /\ \A i \in {1, 2, 4, 5} : s[i] \in Digits
    /\ 10 * DigitVal(s[1]) + DigitVal(s[2]) < 24
    /\ 10 * DigitVal(s[4]) + DigitVal(s[5]) \in {0, 15, 30, 45}

\* C18: validate_time_slot accepts a string exactly when it is two digits, a
\* colon and two digits with hour 00..23 and minute 00, 15, 30 or 45, and a
\* create_booking call with any other time slot returns None with a time_slot
\* error and inserts nothing.
C18_TimeSlotFormat ==
    [][\A p \in Procs :
        /\ (pc[p] = "idle" /\ CreateSteps(p))
              => validate_time_slot(loc'[p].args.time_slot)
                    = IsQuarterHourSlot(loc'[p].args.time_slot)
        /\ (CreateEnds(p) /\ ~IsQuarterHourSlot(loc'[p].args.time_slot))
              => /\ loc'[p].ret.booking = None
                 /\ "time_slot" \in loc'[p].ret.errors
                 /\ bookings' = bookings
      ]_vars

UniqueServiceNames(table) ==
    \A i, j \in DOMAIN table : table[i].name = table[j].name => i = j

\* C19: no two services have the same name; create_service with a name that
\* a service holds returns None and leaves the services as they are, and
\* update_service with a new name that another service holds returns False
\* and leaves the services as they are.
C19_ServiceNamesUnique ==
    [][/\ UniqueServiceNames(services) /\ UniqueServiceNames(services')
       /\ \A p \in Procs :
             (pc[p] = "idle" /\ pc'[p] = "done") =>
                LET name == loc'[p].name
                    held == \E i \in DOMAIN services : services[i].name = name
                    held_by_other == \E i \in DOMAIN services \ {loc'[p].id} :
                                        services[i].name = name
                IN  /\ (loc'[p].op = "create_service" /\ held)
                          => ~loc'[p].ret.ok /\ services' = services
                    /\ (/\ loc'[p].op = "update_service"
                        /\ loc'[p].id \in DOMAIN services
                        /\ held_by_other)
                          => ~loc'[p].ret.ok /\ services' = services
      ]_vars

\* a fourth service exists, one service has been renamed, and a rename to
\* the name of another service has just been refused
C19_Witness ==
    \E p \in Procs :
        /\ pc[p] = "done" /\ loc[p].op = "update_service"
        /\ ~loc[p].ret.ok
        /\ loc[p].id \in DOMAIN services
        /\ \E i \in DOMAIN services \ {loc[p].id} : services[i].name = loc[p].name
        /\ Cardinality(DOMAIN services) = 4
        /\ \E i \in DOMAIN SeedServices : services[i].name # SeedServices[i].name

\* the unread notifications of the bookings with this phone, counted row by row
RECURSIVE CountUnread(_, _, _)
CountUnread(table, n, phone) ==
    IF n = 0 THEN 0
    ELSE CountUnread(table, n - 1, phone)
         + (IF /\ table[n].booking_id \in DOMAIN bookings
               /\ bookings[table[n].booking_id].phone = phone
               /\ ~table[n].is_read
            THEN 1 ELSE 0)

\* the step is a whole call of mark_notification_read by worker p
MarkEnds(p) ==
    pc[p] = "idle" /\ pc'[p] = "done" /\ loc'[p].op = "mark_notification_read"

Phones == {bookings[b].phone : b \in DOMAIN bookings}

\* C21: a notification is created unread and is_read only goes from false to
\* true: no step sets it back or changes the title, message, type or booking of
\* a record.  mark_notification_read of an existing notification returns True
\* and leaves it read; of an unknown id returns False and changes nothing.
\* get_unread_count(phone) is the number of unread notifications of the
\* bookings with that phone; marking an unread notification lowers the count
\* of its phone by exactly one, marking a read one leaves every count.
C21_ReadOnlyForward ==
    [][/\ \A n \in DOMAIN notifications' :
             IF n \in DOMAIN notifications
             THEN /\ notifications'[n].booking_id = notifications[n].booking_id
                  /\ notifications'[n].title = notifications[n].title
                  /\ notifications'[n].message = notifications[n].message
                  /\ notifications'[n].notification_type = notifications[n].notification_type
                  /\ notifications[n].is_read => notifications'[n].is_read
             ELSE notifications'[n].is_read = FALSE
       /\ \A phone \in Phones :
             get_unread_count(phone) = CountUnread(notifications, Len(notifications), phone)
       /\ \A p \in Procs : MarkEnds(p) =>
             LET n == loc'[p].id
             IN  IF n \in DOMAIN notifications
                 THEN /\ loc'[p].ret.ok
                      /\ notifications' = [notifications EXCEPT ![n].is_read = TRUE]
                      /\ \A phone \in Phones :
                            get_unread_count(phone)' =
                               get_unread_count(phone)
                               - (IF /\ ~notifications[n].is_read
                                     /\ bookings[notifications[n].booking_id].phone = phone
                                  THEN 1 ELSE 0)
                 ELSE /\ ~loc'[p].ret.ok
                      /\ notifications' = notifications
      ]_vars

\* a call has marked a notification as read while another one of the same
\* phone is still unread
C21_Witness ==
    \E p \in Procs : \E n, m \in DOMAIN notifications :
        /\ pc[p] = "done"
        /\ loc[p].op = "mark_notification_read"
        /\ loc[p].id = n
        /\ loc[p].ret.ok
        /\ notifications[n].is_read
        /\ ~notifications[m].is_read
        /\ get_unread_count(PhoneFormatted) = 1

\* the call of get_active_services by worker p has returned
ListEnds(p) == pc[p] = "done" /\ loc[p].op = "get_active_services"

\* C22: get_active_services returns exactly the active services, each once,
\* ordered by display_order ascending and then by name ascending; an inactive
\* service never appears in the result.
C22_ActiveServicesOrdered ==
    \A p \in Procs : ListEnds(p) =>
        LET listed == loc[p].listed
        IN  /\ {listed[k] : k \in DOMAIN listed} = {i \in DOMAIN services : services[i].active}
            /\ \A k, m \in DOMAIN listed : k # m => listed[k] # listed[m]
            /\ \A k \in DOMAIN listed : services[listed[k]].active
            /\ \A k, m \in DOMAIN listed : k < m =>
                  LET a == services[listed[k]]
                      b == services[listed[m]]
                  IN  \/ a.display_order < b.display_order
                      \/ /\ a.display_order = b.display_order
                         /\ ~LexLess(NameCodes[b.name], NameCodes[a.name])

\* the list holds two created services of equal display_order, the name of
\* one a prefix of the other's, and a seeded service that was renamed, while
\* another service is inactive
C22_Witness ==
    \E p \in Procs :
        /\ ListEnds(p)
        /\ \E i \in DOMAIN services : ~services[i].active
        /\ \E k, m \in DOMAIN loc[p].listed :
              /\ k < m
              /\ services[loc[p].listed[k]].display_order = DEFAULT_DISPLAY_ORDER
              /\ services[loc[p].listed[m]].display_order = DEFAULT_DISPLAY_ORDER
              /\ services[loc[p].listed[k]].name = "Spravka"
              /\ services[loc[p].listed[m]].name = "Spravka v sad"
        /\ \E k \in DOMAIN loc[p].listed :
              /\ services[loc[p].listed[k]].display_order < DEFAULT_DISPLAY_ORDER
              /\ services[loc[p].listed[k]].name = "Konsultaciya"

\* the step is worker p taking a request to an admin route other than login
AdminRequest(p) == pc[p] = "idle" /\ pc'[p] # "idle" /\ loc'[p].op # "login"

\* the step is a whole call of the login route by worker p
LoginEnds(p) == pc[p] = "idle" /\ pc'[p] = "done" /\ loc'[p].op = "login"

\* C23: every admin route but login requires 'admin_id' in the session: a
\* request without it to the logout, cancel-booking, create-service,
\* toggle-service or delete-service route is answered by the decorator and
\* changes nothing, and no booking or service changes while the session is
\* unauthenticated.  A logout leaves the session unauthenticated, the session
\* becomes authenticated only by a login with the admin's username and
\* password, and a login with an unknown username or a wrong password
\* returns False and leaves the session as it was.
C23_AdminRoutesNeedSession ==
    [][/\ \A p \in Procs : (AdminRequest(p) /\ ~is_authenticated) =>
             /\ pc'[p] = "done"
             /\ loc'[p].op = "login_required"
             /\ UNCHANGED <<services, bookings, subscriptions, notifications, session>>
       /\ (services' # services \/ bookings' # bookings \/ notifications' # notifications)
             => is_authenticated
       /\ \A p \in Procs : (pc'[p] = "done" /\ pc[p] = "idle" /\ loc'[p].op = "logout")
             => ~is_authenticated'
       /\ (~is_authenticated /\ is_authenticated') =>
             \E p \in Procs : /\ LoginEnds(p)
                              /\ loc'[p].ret.ok
                              /\ loc'[p].name = "admin"
                              /\ loc'[p].password = "admin123"
       /\ \A p \in Procs :
             (LoginEnds(p) /\ ~(loc'[p].name = "admin" /\ loc'[p].password = "admin123")) =>
                /\ ~loc'[p].ret.ok
                /\ session' = session
      ]_vars

\* after a login, a cancellation and a logout, a request to an admin route
\* has been turned away by the decorator
C23_Witness ==
    \E p \in Procs :
        /\ pc[p] = "done"
        /\ loc[p].op = "login_required"
        /\ "_permanent" \in DOMAIN session
        /\ \E b \in DOMAIN bookings : bookings[b].status = "cancelled"
        /\ \E i \in DOMAIN services : services[i].name = "Spravka"

\* the notification records of one type of a booking
RecordsOf(booking_id, notification_type) ==
    {n \in DOMAIN notifications : /\ notifications[n].booking_id = booking_id
                                  /\ notifications[n].notification_type = notification_type}

\* C24: across any number of reminder sweeps each booking has at most one
\* notification of type 'reminder': a second run of check_upcoming_bookings on
\* the same day creates no further reminder for a booking that has one.
C24_OneReminderPerBooking ==
    \A b \in DOMAIN bookings : Cardinality(RecordsOf(b, "reminder")) <= 1

\* C25: delete_service never removes a confirmed booking, also when it
\* interleaves with create_booking: no step makes a booking whose status is
\* 'confirmed' disappear from the table.
C25_ConfirmedBookingNeverDeleted ==
    [][\A b \in DOMAIN bookings :
          bookings[b].status = "confirmed" => b \in DOMAIN bookings'
      ]_vars

\* C26: under any interleaving of create_booking, cancel_booking and
\* delete_service every booking's service_id refers to a service that exists.
C26_BookingServiceExists ==
    \A b \in DOMAIN bookings : bookings[b].service_id \in DOMAIN services

\* C27: the reference a create_booking call inserts is held by no booking at
\* the time of the insert, also when requests interleave: no two requests
\* are past the existence check of generate_reference_number with the same
\* reference, no insert fails on the uniqueness of reference_number and no
\* create_booking call ends in an exception for it.
C27_ReferenceCheckThenInsert ==
    [][/\ \A p, q \in Procs :
             (p # q /\ pc'[p] = "cb_insert" /\ pc'[q] = "cb_insert")
                => loc'[p].reference # loc'[q].reference
       /\ \A p \in Procs : (pc[p] = "cb_insert" /\ pc'[p] = "done") =>
             /\ ~ReferenceExists(loc[p].reference)
             /\ loc'[p].ret.raised => loc[p].args.service_id \notin DOMAIN services
      ]_vars

\* C28: each booking has at most one notification of type 'cancellation': an
\* admin cancellation of a booking that is already cancelled creates no
\* second cancellation notification and sends no second push.
C28_OneCancellationPerBooking ==
    [][/\ \A b \in DOMAIN bookings' : Cardinality(RecordsOf(b, "cancellation")') <= 1
       /\ \A p \in Procs :
             (loc[p].op = "cancel_booking_admin" /\ loc[p].ret.was = "cancelled") =>
                /\ notifications' = notifications
                /\ ~(pc[p] = "scn_push" /\ loc'[p].dispatch = "pushed")
      ]_vars

\* C29: sent_at of a notification is set only when a push message for it was
\* delivered: when the push step of send_cancellation_notification or
\* send_reminder_notification ends, sent_at is set if and only if the booking
\* had a subscription and send_push_notification returned True, and no other
\* step sets it.
C29_SentAtMeansDelivered ==
    [][/\ \A p \in Procs : PushEnds(p) =>
             LET n == loc[p].notification
             IN  notifications'[n].sent_at
                    = (FirstSubscription(loc[p].id) # None /\ loc'[p].push_ret = "True")
       /\ \A n \in DOMAIN notifications \cap DOMAIN notifications' :
             notifications'[n].sent_at # notifications[n].sent_at
                => \E p \in Procs : PushEnds(p) /\ loc[p].notification = n
      ]_vars

\* every suffix that can be drawn is held, with the date part of worker p's
\* call, by a booking
AllHeld(p) ==
    \A random_part \in RefPool : ReferenceExists(loc[p].date_part \o <<"-">> \o random_part)

\* C30: generate_reference_number terminates when the draw is fair: a call
\* that is in the retry loop leaves it with a reference unless every suffix
\* of today's date comes to be held by a booking; once every suffix is held
\* the loop never returns and create_booking never completes.
C30_ReferenceLoopTerminates ==
    /\ \A p \in Procs : (pc[p] = "cb_ref") ~> (pc[p] = "cb_insert" \/ AllHeld(p))
    /\ [][\A p \in Procs : (pc[p] = "cb_ref" /\ AllHeld(p)) =>
                               (pc'[p] = "cb_ref" /\ AllHeld(p)')]_vars

\* one call has stored the last free reference while the call of the other
\* worker is in the retry loop, where every suffix is now held
C30_Witness ==
    \E p, q \in Procs :
        /\ pc[p] = "done"
        /\ loc[p].ret.booking # None
        /\ pc[q] = "cb_ref"
        /\ AllHeld(q)

====
